---- MODULE Spec2Model ----
(***************************************************************************)
(* json-tmx-align: the JSON -> TMX converter.  The text transformations    *)
(* (entity decoding, sentence segmentation, inline-tag conversion, XML     *)
(* escaping, JSON flattening), the alignment of source and target          *)
(* documents into translation units (parseJsonFiles), the unit identifiers *)
(* (generateTUID), the language resolution (getBaseName,                   *)
(* detectLanguageForFile, findLanguagePairs), the serialization of the     *)
(* units (generateTMX) and the file selection of the FileUpload component  *)
(* (handleFiles), each as a state machine.                                 *)
(* A text is a sequence of characters; a character is a one-character      *)
(* string, or "u<code point>" for a character outside the printable ASCII  *)
(* range.                                                                  *)
(***************************************************************************)
EXTENDS Integers, Sequences, FiniteSets, TLC

VARIABLES
  pc,              \* position of the running call
  text,            \* decodeHtmlEntities: the argument of the running call
  maxIterations,   \* decodeHtmlEntities: its second argument
  result,          \* decodeHtmlEntities: let result
  previousResult,  \* decodeHtmlEntities: let previousResult
  iteration,       \* decodeHtmlEntities: let iteration
  call,            \* 1: decode(T); 2: decode(decode(T))
  firstResult,     \* what the first call returned
  normalizedText,  \* segmentIntoSentences: let normalizedText
  processedText,   \* segmentIntoSentences: let processedText
  abbrevMap,       \* segmentIntoSentences: abbrevMap, index of the abbreviation -> match
  segments,        \* segmentIntoSentences: segments
  restoredSegments, \* segmentIntoSentences: the sequence it returns
  tags,            \* convertHtmlTagsToTmxInline: tags
  tagIdCounter,    \* convertHtmlTagsToTmxInline: let tagIdCounter
  tagStack,        \* convertHtmlTagsToTmxInline: tagStack
  tagRegexLastIndex, \* convertHtmlTagsToTmxInline: tagRegex.lastIndex, counted from 1
  inlineResult,    \* convertHtmlTagsToTmxInline: what it returns
  tmxTags,         \* escapeXmlExceptTmxTags: tmxTags
  escapedResult,   \* escapeXmlExceptTmxTags: let result
  doc,             \* flattenJSON: the content it is called with
  flat,            \* flattenJSON: the items it returns, in the order of their insertion
  sourceFiles,     \* parseJsonFiles: its first argument
  targetFiles,     \* parseJsonFiles: its second argument
  enableSegmentation, \* parseJsonFiles: its third argument
  fileIndex,       \* parseJsonFiles: the source file forEach is at, counted from 1
  translationUnits, \* parseJsonFiles: translationUnits
  errors,          \* parseJsonFiles: errors
  missingKeys,     \* parseJsonFiles: missingKeys
  warnings,        \* parseJsonFiles: what it wrote with console.warn
  unitPair,        \* generateTUID: the two translation units it is called with
  tuids,           \* generateTUID: what it returned for either
  baseArg,         \* getBaseName: its argument
  baseNames,       \* getBaseName: what it returned, then what it returned for that
  detectFile,      \* detectLanguageForFile: its argument
  detected,        \* detectLanguageForFile: what it returned
  pairFiles,       \* findLanguagePairs: its first argument
  specifiedSourceLang, \* findLanguagePairs: its second argument, the empty text when absent
  fileGroups,      \* findLanguagePairs: fileGroups, the base names and the indices of their files
  groupIndex,      \* findLanguagePairs: the group forEach is at, counted from 1
  pairs,           \* findLanguagePairs: pairs
  tmxUnits,        \* generateTMX: translationUnits
  tmxSourceLanguage, \* generateTMX: sourceLanguage
  tmxTargetLanguage, \* generateTMX: targetLanguage
  translationUnitElements, \* generateTMX: what map() has returned so far
  tmxContent,      \* generateTMX: the text returned
  uploadFiles,     \* FileUpload: the files prop, the state of the converter
  handleFilesCalls \* FileUpload: the calls of handleFiles, finished or not

decodeVars == <<maxIterations, result, previousResult, iteration, call, firstResult>>

segmentVars == <<normalizedText, processedText, abbrevMap, segments, restoredSegments>>

inlineVars ==
  <<tags, tagIdCounter, tagStack, tagRegexLastIndex, inlineResult, tmxTags, escapedResult>>

flattenVars == <<doc, flat>>

alignVars ==
  <<sourceFiles, targetFiles, enableSegmentation, fileIndex, translationUnits, errors,
    missingKeys, warnings>>

idVars == <<unitPair, tuids>>

baseNameVars == <<baseArg, baseNames>>

detectVars == <<detectFile, detected>>

pairsVars == <<pairFiles, specifiedSourceLang, fileGroups, groupIndex, pairs>>

langVars ==
  <<baseArg, baseNames, detectFile, detected, pairFiles, specifiedSourceLang, fileGroups, groupIndex,
    pairs>>

serializeVars ==
  <<tmxUnits, tmxSourceLanguage, tmxTargetLanguage, translationUnitElements, tmxContent>>

uploadVars == <<uploadFiles, handleFilesCalls>>

vars ==
  <<pc, text, decodeVars, segmentVars, inlineVars, flattenVars, alignVars, idVars, langVars,
    serializeVars, uploadVars>>

\* what each component leaves alone
notDecode ==
  <<segmentVars, inlineVars, flattenVars, alignVars, idVars, langVars,
    serializeVars, uploadVars>>

notSegment ==
  <<decodeVars, inlineVars, flattenVars, alignVars, idVars, langVars,
    serializeVars, uploadVars>>

notInline ==
  <<decodeVars, segmentVars, flattenVars, alignVars, idVars, langVars,
    serializeVars, uploadVars>>

notFlatten ==
  <<text, decodeVars, segmentVars, inlineVars, alignVars, idVars, langVars,
    serializeVars, uploadVars>>

notAlign ==
  <<text, decodeVars, segmentVars, inlineVars, flattenVars, idVars, langVars,
    serializeVars, uploadVars>>

notId ==
  <<text, decodeVars, segmentVars, inlineVars, flattenVars, alignVars, langVars,
    serializeVars, uploadVars>>

notLang ==
  <<text, decodeVars, segmentVars, inlineVars, flattenVars, alignVars, idVars,
    serializeVars, uploadVars>>

notSerialize ==
  <<text, decodeVars, segmentVars, inlineVars, flattenVars, alignVars, idVars, langVars,
    uploadVars>>

notUpload ==
  <<text, decodeVars, segmentVars, inlineVars, flattenVars, alignVars, idVars, langVars,
    serializeVars>>

-----------------------------------------------------------------------------
(* Characters *)

AsciiPrintable ==
  <<
    " ", "!", "\"", "#", "$", "%", "&", "'", "(", ")", "*", "+", ",", "-",
    ".", "/", "0", "1", "2", "3", "4", "5", "6", "7", "8", "9", ":", ";",
    "<", "=", ">", "?", "@", "A", "B", "C", "D", "E", "F", "G", "H", "I",
    "J", "K", "L", "M", "N", "O", "P", "Q", "R", "S", "T", "U", "V", "W",
    "X", "Y", "Z", "[", "\\", "]", "^", "_", "u96", "a", "b", "c", "d", "e",
    "f", "g", "h", "i", "j", "k", "l", "m", "n", "o", "p", "q", "r", "s",
    "t", "u", "v", "w", "x", "y", "z", "{", "|", "}", "~"
  >>

LowerCase ==
  << "a", "b", "c", "d", "e", "f", "g", "h", "i", "j", "k", "l", "m", "n",
     "o", "p", "q", "r", "s", "t", "u", "v", "w", "x", "y", "z" >>

UpperCase ==
  << "A", "B", "C", "D", "E", "F", "G", "H", "I", "J", "K", "L", "M", "N",
     "O", "P", "Q", "R", "S", "T", "U", "V", "W", "X", "Y", "Z" >>

DigitChars == << "0", "1", "2", "3", "4", "5", "6", "7", "8", "9" >>

Range(f) == { f[i] : i \in DOMAIN f }

Letters == Range(LowerCase) \cup Range(UpperCase)

Digits == Range(DigitChars)

HexDigits == Digits \cup { LowerCase[i] : i \in 1..6 } \cup { UpperCase[i] : i \in 1..6 }

IndexIn(f, c) == CHOOSE i \in DOMAIN f : f[i] = c

\* String.fromCodePoint(code) for a valid code point
Chr(code) ==
  IF code \in 32..126 THEN AsciiPrintable[code - 31]
  ELSE IF code = 9 THEN "\t"
  ELSE IF code = 10 THEN "\n"
  ELSE IF code = 13 THEN "\r"
  ELSE "u" \o ToString(code)

\* the value of one digit in parseInt(_, 10) and parseInt(_, 16)
DigitValue(c) ==
  IF c \in Digits THEN IndexIn(DigitChars, c) - 1
  ELSE IF c \in Range(LowerCase) THEN IndexIn(LowerCase, c) + 9
  ELSE IndexIn(UpperCase, c) + 9

RECURSIVE ParseInt(_, _)
ParseInt(ds, radix) ==
  IF ds = <<>> THEN 0
  ELSE ParseInt(SubSeq(ds, 1, Len(ds) - 1), radix) * radix + DigitValue(ds[Len(ds)])

\* the characters of a text as one string
RECURSIVE Join(_)
Join(s) == IF s = <<>> THEN "" ELSE Head(s) \o Join(Tail(s))

\* the number of consecutive characters of class cls in s from position i on
RECURSIVE RunLen(_, _, _)
RunLen(s, i, cls) ==
  IF i <= Len(s) /\ s[i] \in cls THEN 1 + RunLen(s, i + 1, cls) ELSE 0

\* the first position from i on at which M holds, 0 when there is none: where a
\* regular expression scanning from i finds its next match
FirstFrom(s, i, M(_)) ==
  IF \E j \in i..Len(s) : M(j)
  THEN CHOOSE j \in i..Len(s) : M(j) /\ \A k \in i..(j - 1) : ~M(k)
  ELSE 0

RECURSIVE Flatten(_)
Flatten(ss) == IF ss = <<>> THEN <<>> ELSE Head(ss) \o Flatten(Tail(ss))

\* the variables of a component that is not running
DecodeIdle ==
  /\ maxIterations = 0 /\ result = <<>> /\ previousResult = <<>>
  /\ iteration = 0 /\ call = 1 /\ firstResult = <<>>

SegmentIdle ==
  /\ normalizedText = <<>> /\ processedText = <<>> /\ abbrevMap = <<>>
  /\ segments = <<>> /\ restoredSegments = <<>>

InlineIdle ==
  /\ tags = <<>> /\ tagIdCounter = 1 /\ tagStack = <<>> /\ tagRegexLastIndex = 1
  /\ inlineResult = <<>> /\ tmxTags = <<>> /\ escapedResult = <<>>

FlattenIdle == doc = [t |-> "object", v |-> <<>>] /\ flat = <<>>

IdIdle == unitPair = <<>> /\ tuids = <<>>

\* no language detected: null
NoLanguage == <<>>

NoDetection == [lang |-> NoLanguage, origin |-> "null"]

BaseNameIdle == baseArg = <<>> /\ baseNames = <<>>

DetectIdle ==
  /\ detectFile = [name |-> <<>>, path |-> <<>>, content |-> [t |-> "null", v |-> "null"]]
  /\ detected = NoDetection

PairsIdle ==
  /\ pairFiles = <<>> /\ specifiedSourceLang = <<>> /\ fileGroups = <<>> /\ groupIndex = 1
  /\ pairs = <<>>

LangIdle == BaseNameIdle /\ DetectIdle /\ PairsIdle

SerializeIdle ==
  /\ tmxUnits = <<>> /\ tmxSourceLanguage = <<>> /\ tmxTargetLanguage = <<>>
  /\ translationUnitElements = <<>> /\ tmxContent = <<>>

UploadIdle == uploadFiles = <<>> /\ handleFilesCalls = <<>>

AlignIdle ==
  /\ sourceFiles = <<>> /\ targetFiles = <<>> /\ enableSegmentation = FALSE
  /\ fileIndex = 1 /\ translationUnits = <<>> /\ errors = <<>>
  /\ missingKeys = <<>> /\ warnings = <<>>

-----------------------------------------------------------------------------
(* EntityDecoder: decodeHtmlEntities *)

HTML_ENTITY_MAP ==
  [
    agrave |-> 224, aacute |-> 225, acirc |-> 226, atilde |-> 227,
    auml |-> 228, aring |-> 229, Agrave |-> 192, Aacute |-> 193,
    Acirc |-> 194, Atilde |-> 195, Auml |-> 196, Aring |-> 197,
    ccedil |-> 231, Ccedil |-> 199, egrave |-> 232, eacute |-> 233,
    ecirc |-> 234, euml |-> 235, Egrave |-> 200, Eacute |-> 201,
    Ecirc |-> 202, Euml |-> 203, igrave |-> 236, iacute |-> 237,
    icirc |-> 238, iuml |-> 239, Igrave |-> 204, Iacute |-> 205,
    Icirc |-> 206, Iuml |-> 207, ograve |-> 242, oacute |-> 243,
    ocirc |-> 244, otilde |-> 245, ouml |-> 246, oslash |-> 248,
    Ograve |-> 210, Oacute |-> 211, Ocirc |-> 212, Otilde |-> 213,
    Ouml |-> 214, Oslash |-> 216, ugrave |-> 249, uacute |-> 250,
    ucirc |-> 251, uuml |-> 252, Ugrave |-> 217, Uacute |-> 218,
    Ucirc |-> 219, Uuml |-> 220, yacute |-> 253, yuml |-> 255,
    Yacute |-> 221, ntilde |-> 241, Ntilde |-> 209, aelig |-> 230,
    AElig |-> 198, szlig |-> 223, thorn |-> 254, THORN |-> 222, eth |-> 240,
    ETH |-> 208, lsquo |-> 8216, rsquo |-> 8217, sbquo |-> 8218,
    ldquo |-> 8220, rdquo |-> 8221, bdquo |-> 8222, quot |-> 34, apos |-> 39,
    lsaquo |-> 8249, rsaquo |-> 8250, laquo |-> 171, raquo |-> 187,
    nbsp |-> 160, iexcl |-> 161, iquest |-> 191, hellip |-> 8230,
    ndash |-> 8211, mdash |-> 8212, bull |-> 8226, middot |-> 183,
    dagger |-> 8224, Dagger |-> 8225, permil |-> 8240, prime |-> 8242,
    Prime |-> 8243, copy |-> 169, reg |-> 174, trade |-> 8482, euro |-> 8364,
    pound |-> 163, yen |-> 165, cent |-> 162, curren |-> 164, fnof |-> 402,
    sect |-> 167, para |-> 182, deg |-> 176, plusmn |-> 177, times |-> 215,
    divide |-> 247, frac14 |-> 188, frac12 |-> 189, frac34 |-> 190,
    sup1 |-> 185, sup2 |-> 178, sup3 |-> 179, micro |-> 181, amp |-> 38,
    lt |-> 60, gt |-> 62, alpha |-> 945, beta |-> 946, gamma |-> 947,
    delta |-> 948, epsilon |-> 949, Alpha |-> 913, Beta |-> 914,
    Gamma |-> 915, Delta |-> 916, Epsilon |-> 917, infin |-> 8734,
    sum |-> 8721, minus |-> 8722, radic |-> 8730, ne |-> 8800,
    equiv |-> 8801, le |-> 8804, ge |-> 8805
  ]

\* the largest code point String.fromCodePoint accepts (it throws a RangeError above)
MaxCodePoint == 1114111

DefaultMaxIterations == 5

\* the names HTML_ENTITY_MAP[entity] also finds, on Object.prototype
ObjectPrototypeNames ==
  { "constructor", "hasOwnProperty", "isPrototypeOf", "propertyIsEnumerable",
    "toLocaleString", "toString", "valueOf" }

\* String(f) of a built-in function, what replace() inserts for such a name
NativeFunctionText(entity) ==
  << "f", "u", "n", "c", "t", "i", "o", "n", " " >>
  \o (IF Join(entity) = "constructor" THEN << "O", "b", "j", "e", "c", "t" >> ELSE entity)
  \o << "(", ")", " ", "{", " ", "[", "n", "a", "t", "i", "v", "e", " ",
        "c", "o", "d", "e", "]", " ", "}" >>

\* (match, entity) => HTML_ENTITY_MAP[entity] || match
NamedReplacement(match, entity) ==
  LET name == Join(entity)
  IN IF name \in DOMAIN HTML_ENTITY_MAP THEN << Chr(HTML_ENTITY_MAP[name]) >>
     ELSE IF name \in ObjectPrototypeNames THEN NativeFunctionText(entity)
     ELSE match

\* code > 0 ? String.fromCodePoint(code) : match
NumericReplacement(match, code) == IF code > 0 THEN << Chr(code) >> ELSE match

\* the length of the name when /&([a-zA-Z]+);/ matches at i, else 0
NamedRefAt(s, i) ==
  LET n == IF s[i] = "&" THEN RunLen(s, i + 1, Letters) ELSE 0
  IN IF n > 0 /\ i + n + 1 <= Len(s) /\ s[i + n + 1] = ";" THEN n ELSE 0

\* the number of digits when /&#(\d+);/ matches at i, else 0
DecimalRefAt(s, i) ==
  LET n == IF s[i] = "&" /\ i + 1 <= Len(s) /\ s[i + 1] = "#"
           THEN RunLen(s, i + 2, Digits) ELSE 0
  IN IF n > 0 /\ i + n + 2 <= Len(s) /\ s[i + n + 2] = ";" THEN n ELSE 0

\* the number of digits when /&#x([0-9A-Fa-f]+);/ matches at i, else 0
HexRefAt(s, i) ==
  LET n == IF s[i] = "&" /\ i + 2 <= Len(s) /\ s[i + 1] = "#" /\ s[i + 2] = "x"
           THEN RunLen(s, i + 3, HexDigits) ELSE 0
  IN IF n > 0 /\ i + n + 3 <= Len(s) /\ s[i + n + 3] = ";" THEN n ELSE 0

RECURSIVE ReplaceNamedFrom(_, _)
ReplaceNamedFrom(s, i) ==
  IF i > Len(s) THEN <<>>
  ELSE LET n == NamedRefAt(s, i)
       IN IF n > 0
          THEN NamedReplacement(SubSeq(s, i, i + n + 1), SubSeq(s, i + 1, i + n))
               \o ReplaceNamedFrom(s, i + n + 2)
          ELSE << s[i] >> \o ReplaceNamedFrom(s, i + 1)

RECURSIVE ReplaceDecimalFrom(_, _)
ReplaceDecimalFrom(s, i) ==
  IF i > Len(s) THEN <<>>
  ELSE LET n == DecimalRefAt(s, i)
       IN IF n > 0
          THEN NumericReplacement(SubSeq(s, i, i + n + 2),
                                  ParseInt(SubSeq(s, i + 2, i + n + 1), 10))
               \o ReplaceDecimalFrom(s, i + n + 3)
          ELSE << s[i] >> \o ReplaceDecimalFrom(s, i + 1)

RECURSIVE ReplaceHexFrom(_, _)
ReplaceHexFrom(s, i) ==
  IF i > Len(s) THEN <<>>
  ELSE LET n == HexRefAt(s, i)
       IN IF n > 0
          THEN NumericReplacement(SubSeq(s, i, i + n + 3),
                                  ParseInt(SubSeq(s, i + 3, i + n + 2), 16))
               \o ReplaceHexFrom(s, i + n + 4)
          ELSE << s[i] >> \o ReplaceHexFrom(s, i + 1)

ReplaceNamed(s) == ReplaceNamedFrom(s, 1)

ReplaceDecimal(s) == ReplaceDecimalFrom(s, 1)

ReplaceHex(s) == ReplaceHexFrom(s, 1)

\* String.fromCodePoint throws for some reference of the pass
DecimalThrows(s) ==
  \E i \in 1..Len(s) :
    /\ DecimalRefAt(s, i) > 0
    /\ ParseInt(SubSeq(s, i + 2, i + DecimalRefAt(s, i) + 1), 10) > MaxCodePoint

HexThrows(s) ==
  \E i \in 1..Len(s) :
    /\ HexRefAt(s, i) > 0
    /\ ParseInt(SubSeq(s, i + 3, i + HexRefAt(s, i) + 2), 16) > MaxCodePoint

PassThrows(s) ==
  \/ DecimalThrows(ReplaceNamed(s))
  \/ HexThrows(ReplaceDecimal(ReplaceNamed(s)))

\* one pass of the loop body: named, then decimal, then hexadecimal references
DecodePassOf(s) == ReplaceHex(ReplaceDecimal(ReplaceNamed(s)))

\* the while condition run for one pass fewer
KeepDecodingOffByOne(res, prev, iter, maxIter) == res # prev /\ iter + 1 < maxIter

\* an if in place of the while: a single pass
KeepDecodingOnce(res, prev, iter, maxIter) == res # prev /\ iter < 1

\* the while condition
KeepDecoding(res, prev, iter, maxIter) == res # prev /\ iter < maxIter

\* ---- the texts decodeHtmlEntities is called with ----

MaxTokens == 2

MaxNest == 5

DecodeTokens ==
  { << "&" >>, << "a", "m", "p", ";" >>, << "l", "t", ";" >>,
    << "r", "s", "q", "u", "o", ";" >>, << "z", "z", ";" >>,
    << "#", "3", "8", ";" >>, << "#", "x", "2", "6", ";" >>, << "#", "0", ";" >>,
    << "#", "1", "1", "1", "4", "1", "1", "2", ";" >>, << "x" >> }

TokenTexts(tokens, n) ==
  { Flatten(ts) : ts \in UNION { [1..k -> tokens] : k \in 0..n } }

\* every & written as &amp;, the encoding the decoder undoes
RECURSIVE EncodeAmp(_)
EncodeAmp(s) ==
  IF s = <<>> THEN <<>>
  ELSE (IF Head(s) = "&" THEN << "&", "a", "m", "p", ";" >> ELSE << Head(s) >>)
       \o EncodeAmp(Tail(s))

RECURSIVE EncodeAmpTimes(_, _)
EncodeAmpTimes(s, k) == IF k = 0 THEN s ELSE EncodeAmpTimes(EncodeAmp(s), k - 1)

\* references by name and by number, one to a text
ReferenceExamples ==
  { << "&", "c", "o", "n", "s", "t", "r", "u", "c", "t", "o", "r", ";" >>,
    << "&", "v", "a", "l", "u", "e", "O", "f", ";", "x" >>,
    << "&", "#", "2", "3", "3", ";" >>, << "&", "#", "x", "E", "9", ";" >>,
    << "&", "#", "x", "0", ";" >>, << "&", "#", "0", "0", ";" >>,
    << "&", "#", "x", "1", "1", "0", "0", "0", "0", ";" >> }

\* the texts of up to n tokens, encoded up to nest times, and the examples
DecodeInputs(n, nest) ==
  { EncodeAmpTimes(b, k) : b \in TokenTexts(DecodeTokens, n), k \in 0..nest }
    \cup ReferenceExamples

MaxIterationsChoices == { 1, 2, DefaultMaxIterations }

\* the argument of the running call
DecodeArg == IF call = 1 THEN text ELSE firstResult

InitDecode ==
  /\ pc = "decode"
  /\ text \in DecodeInputs(MaxTokens, MaxNest)
  /\ maxIterations \in MaxIterationsChoices
  /\ result = <<>>
  /\ previousResult = <<>>
  /\ iteration = 0
  /\ call = 1
  /\ firstResult = <<>>
  /\ SegmentIdle
  /\ InlineIdle
  /\ FlattenIdle
  /\ AlignIdle
  /\ IdIdle
  /\ LangIdle
  /\ SerializeIdle
  /\ UploadIdle

\* if (!text) return text; result = text, previousResult = the empty text, iteration = 0
DecodeEnter ==
  /\ pc = "decode"
  /\ result' = DecodeArg
  /\ previousResult' = <<>>
  /\ iteration' = 0
  /\ pc' = IF DecodeArg = <<>> THEN "decoded" ELSE "decode_loop"
  /\ UNCHANGED <<text, maxIterations, call, firstResult, notDecode>>

\* one run of the while body
DecodePass ==
  /\ pc = "decode_loop"
  /\ KeepDecoding(result, previousResult, iteration, maxIterations)
  /\ ~PassThrows(result)
  /\ previousResult' = result
  /\ result' = DecodePassOf(result)
  /\ iteration' = iteration + 1
  /\ UNCHANGED <<pc, text, maxIterations, call, firstResult, notDecode>>

\* String.fromCodePoint throws inside the while body: the call ends with a RangeError
DecodeThrow ==
  /\ pc = "decode_loop"
  /\ KeepDecoding(result, previousResult, iteration, maxIterations)
  /\ PassThrows(result)
  /\ pc' = "decode_threw"
  /\ UNCHANGED <<text, decodeVars, notDecode>>

\* return result
DecodeReturn ==
  /\ pc = "decode_loop"
  /\ ~KeepDecoding(result, previousResult, iteration, maxIterations)
  /\ pc' = "decoded"
  /\ UNCHANGED <<text, decodeVars, notDecode>>

\* the caller decodes the returned text once more: decode(decode(T))
DecodeAgain ==
  /\ pc = "decoded"
  /\ call = 1
  /\ call' = 2
  /\ firstResult' = result
  /\ pc' = "decode"
  /\ UNCHANGED <<text, maxIterations, result, previousResult, iteration, notDecode>>

NextDecode ==
  \/ DecodeEnter
  \/ DecodePass
  \/ DecodeThrow
  \/ DecodeReturn
  \/ DecodeAgain

SpecDecode == InitDecode /\ [][NextDecode]_vars

-----------------------------------------------------------------------------
(* Claims about decodeHtmlEntities *)

Amp == << "&", "a", "m", "p", ";" >>

\* the length of a reference body at j (what follows an &) that decodes to &
AmpBodyAt(s, j) ==
  IF j + 3 <= Len(s) /\ SubSeq(s, j, j + 3) = << "a", "m", "p", ";" >> THEN 4
  ELSE IF j + 3 <= Len(s) /\ SubSeq(s, j, j + 3) = << "#", "3", "8", ";" >> THEN 4
  ELSE IF j + 4 <= Len(s) /\ SubSeq(s, j, j + 4) = << "#", "x", "2", "6", ";" >> THEN 5
  ELSE 0

RECURSIVE LevelsAt(_, _)
LevelsAt(s, j) ==
  IF AmpBodyAt(s, j) = 0 THEN 0 ELSE 1 + LevelsAt(s, j + AmpBodyAt(s, j))

Max(S) == CHOOSE x \in S : \A y \in S : y <= x

\* under how many levels of encoded ampersands the text nests a reference
EncodingLevels(s) ==
  Max({ 0 } \cup { LevelsAt(s, i + 1) : i \in { k \in 1..Len(s) : s[k] = "&" } })

RECURSIVE PassTimes(_, _)
PassTimes(s, n) == IF n = 0 THEN s ELSE DecodePassOf(PassTimes(s, n - 1))

AmpRsquo == << "&", "a", "m", "p", ";", "r", "s", "q", "u", "o", ";" >>

\* C2: decode feeds each pass its own output, stops only once a pass changed
\* nothing or maxPasses passes have run, resolves &amp;rsquo; within 2 passes, and
\* returns a fixed point of one pass whenever it stops before maxPasses passes
C2_DecodeLoop ==
  /\ pc \in { "decode_loop", "decoded" } =>
       /\ iteration <= maxIterations
       /\ result = PassTimes(DecodeArg, iteration)
       /\ iteration >= 1 => previousResult = PassTimes(DecodeArg, iteration - 1)
       /\ iteration >= 2 => PassTimes(DecodeArg, iteration - 2) # previousResult
  /\ (pc = "decoded" /\ iteration < maxIterations) => DecodePassOf(result) = result
  /\ (pc = "decoded" /\ DecodeArg # <<>>) =>
       (iteration = maxIterations \/ (iteration >= 1 /\ result = previousResult))
  /\ (pc \in { "decode_loop", "decoded" } /\ DecodeArg = AmpRsquo /\ iteration >= 2) =>
       result = << Chr(8217) >>
  /\ (pc = "decoded" /\ DecodeArg = AmpRsquo /\ maxIterations >= 2) =>
       result = << Chr(8217) >>

\* &amp;rsquo; decoded with maxPasses 2: both passes ran and the quote is literal
C2_Witness ==
  /\ pc = "decoded" /\ call = 1 /\ text = AmpRsquo
  /\ maxIterations = 2 /\ iteration = 2
  /\ previousResult = << "&", "r", "s", "q", "u", "o", ";" >>
  /\ result = << "u8217" >>

-----------------------------------------------------------------------------
(* TextNormalizer + Segmenter: segmentIntoSentences *)

\* \s of a JavaScript regular expression, and what trim() removes
WhiteSpace ==
  { " ", "\t", "\n", "\r", "u11", "u12", "u160", "u5760", "u8232", "u8233",
    "u8239", "u8287", "u12288", "u65279" } \cup { "u" \o ToString(n) : n \in 8192..8202 }

\* what . of a regular expression does not match
LineTerminators == { "\n", "\r", "u8232", "u8233" }

\* [\uFFFC\u200B\u200C\u200D\u2060\uFEFF]
HiddenChars == { "u65532", "u8203", "u8204", "u8205", "u8288", "u65279" }

\* [\u00A0\u202F]
NonBreakingSpaces == { "u160", "u8239" }

\* the bullet class of the list patterns: U+2022, *, -, U+2013, U+2014
BulletChars == { "u8226", "*", "-", "u8211", "u8212" }

\* \w
WordChars == Letters \cup Digits \cup { "_" }

DECIMAL_DOT == << "_", "_", "D", "E", "C", "I", "M", "A", "L", "_", "D", "O", "T", "_", "_" >>

BOUNDARY == << "|", "|", "|" >>

\* const abbreviations; a dot inside one is a wildcard of the pattern built from it
abbreviations ==
  <<
    << "D", "r" >>,
    << "M", "r" >>,
    << "M", "r", "s" >>,
    << "M", "s" >>,
    << "P", "r", "o", "f" >>,
    << "S", "r" >>,
    << "J", "r" >>,
    << "I", "n", "c" >>,
    << "L", "t", "d" >>,
    << "C", "o" >>,
    << "C", "o", "r", "p" >>,
    << "e", "t", "c" >>,
    << "i", ".", "e" >>,
    << "e", ".", "g" >>,
    << "v", "s" >>,
    << "U", ".", "S" >>,
    << "U", ".", "K" >>,
    << "A", ".", "M" >>,
    << "P", ".", "M" >>
  >>

\* the lower-case letter of each upper-case one
LowerOf == [c \in Range(UpperCase) |-> LowerCase[IndexIn(UpperCase, c)]]

\* toLowerCase of one character, as the flag i compares
ToLower(c) == IF c \in DOMAIN LowerOf THEN LowerOf[c] ELSE c

\* s starts with p at position i
StartsWithAt(s, i, p) == i + Len(p) - 1 <= Len(s) /\ SubSeq(s, i, i + Len(p) - 1) = p

\* s ends with p
EndsWith(s, p) == Len(p) <= Len(s) /\ SubSeq(s, Len(s) - Len(p) + 1, Len(s)) = p

\* trim()
RECURSIVE Trim(_)
Trim(s) ==
  IF s = <<>> THEN s
  ELSE IF s[1] \in WhiteSpace THEN Trim(Tail(s))
  ELSE IF s[Len(s)] \in WhiteSpace THEN Trim(SubSeq(s, 1, Len(s) - 1))
  ELSE s

\* replace(/\s+/g, ' ')
RECURSIVE CollapseWhiteSpace(_, _)
CollapseWhiteSpace(s, i) ==
  LET j == FirstFrom(s, i, LAMBDA k : s[k] \in WhiteSpace)
  IN IF j = 0 THEN SubSeq(s, i, Len(s))
     ELSE SubSeq(s, i, j - 1) \o << " " >>
            \o CollapseWhiteSpace(s, j + RunLen(s, j, WhiteSpace))

\* the three replace() calls and the trim() that make normalizedText
Normalize(s) ==
  LET shown == SelectSeq(s, LAMBDA c : c \notin HiddenChars)
      spaced == [i \in DOMAIN shown |->
                   IF shown[i] \in NonBreakingSpaces THEN " " ELSE shown[i]]
  IN Trim(CollapseWhiteSpace(spaced, 1))

\* replace(/(\d)\.(\d)/g, '$1__DECIMAL_DOT__$2')
RECURSIVE ProtectDecimals(_, _)
ProtectDecimals(s, i) ==
  LET j == FirstFrom(s, i, LAMBDA k : /\ k + 2 <= Len(s) /\ s[k] \in Digits
                                      /\ s[k + 1] = "." /\ s[k + 2] \in Digits)
  IN IF j = 0 THEN SubSeq(s, i, Len(s))
     ELSE SubSeq(s, i, j) \o DECIMAL_DOT \o << s[j + 2] >> \o ProtectDecimals(s, j + 3)

\* the decimal digits of a number
RECURSIVE DigitsOf(_)
DigitsOf(n) ==
  IF n < 10 THEN << DigitChars[n + 1] >> ELSE DigitsOf(n \div 10) \o << DigitChars[(n % 10) + 1] >>

\* `__ABBREV_${idx}__`
Placeholder(idx) ==
  << "_", "_", "A", "B", "B", "R", "E", "V", "_" >> \o DigitsOf(idx) \o << "_", "_" >>

\* one character of the pattern against one of the text, under the flags gi
PatternCharMatches(p, c) ==
  IF p = "." THEN c \notin LineTerminators ELSE ToLower(c) = ToLower(p)

\* new RegExp(`\\b${abbrev}\\.`, 'gi') matches at i
AbbrevMatchesAt(s, i, abbrev) ==
  /\ PatternCharMatches(abbrev[1], s[i])
  /\ i = 1 \/ s[i - 1] \notin WordChars
  /\ i + Len(abbrev) <= Len(s)
  /\ s[i + Len(abbrev)] = "."
  /\ \A k \in 2..Len(abbrev) : PatternCharMatches(abbrev[k], s[i + k - 1])

\* processedText.replace(pattern, ...): the text with every match replaced
RECURSIVE ReplaceAbbrev(_, _, _)
ReplaceAbbrev(s, i, idx) ==
  LET abbrev == abbreviations[idx + 1]
      j == FirstFrom(s, i, LAMBDA k : AbbrevMatchesAt(s, k, abbrev))
  IN IF j = 0 THEN SubSeq(s, i, Len(s))
     ELSE SubSeq(s, i, j - 1) \o Placeholder(idx) \o ReplaceAbbrev(s, j + Len(abbrev) + 1, idx)

\* the positions at which replace() finds its matches, left to right, not overlapping
RECURSIVE AbbrevMatches(_, _, _)
AbbrevMatches(s, i, idx) ==
  LET abbrev == abbreviations[idx + 1]
      j == FirstFrom(s, i, LAMBDA k : AbbrevMatchesAt(s, k, abbrev))
  IN IF j = 0 THEN <<>>
     ELSE << j >> \o AbbrevMatches(s, j + Len(abbrev) + 1, idx)

\* abbrevMap.set(placeholder, match) for every match: the last one stays
SetOriginal(map, s, idx) ==
  LET at == AbbrevMatches(s, 1, idx)
      last == at[Len(at)]
  IN IF at = <<>> THEN map
     ELSE Append(map, [idx |-> idx,
                       original |-> SubSeq(s, last, last + Len(abbreviations[idx + 1]))])

\* the abbreviations, counted from idx on, that the text holds
AbbrevsHeld(s, idx) ==
  { a \in idx..(Len(abbreviations) - 1) : AbbrevMatches(s, 1, a) # <<>> }

\* the first of these, Len(abbreviations) when there is none
NextAbbrev(s, idx) ==
  IF AbbrevsHeld(s, idx) = {} THEN Len(abbreviations)
  ELSE CHOOSE a \in AbbrevsHeld(s, idx) : \A b \in AbbrevsHeld(s, idx) : a <= b

RECURSIVE ProtectAbbreviations(_, _, _)

\* the callback for abbreviation next, and forEach going on after it
ProtectFrom(s, map, next) ==
  IF next >= Len(abbreviations) THEN << s, map >>
  ELSE ProtectAbbreviations(ReplaceAbbrev(s, 1, next), SetOriginal(map, s, next), next + 1)

\* abbreviations.forEach(...) from index idx on: <<processedText, abbrevMap>>; the
\* callback changes nothing for an abbreviation the text does not hold
ProtectAbbreviations(s, map, idx) == ProtectFrom(s, map, NextAbbrev(s, idx))

\* the length of (?:(\d+\.)|([bullet])) at j, 0 when it does not match there
MarkerLenAt(s, j) ==
  IF j > Len(s) THEN 0
  ELSE IF s[j] \in Digits
       THEN LET d == RunLen(s, j, Digits)
            IN IF j + d <= Len(s) /\ s[j + d] = "." THEN d + 1 ELSE 0
  ELSE IF s[j] \in BulletChars THEN 1
  ELSE 0

\* the length of (^|\r?\n) at i, -1 when neither alternative matches there
LineStartLenAt(s, i) ==
  IF i = 1 THEN 0
  ELSE IF s[i] = "\n" THEN 1
  ELSE IF s[i] = "\r" /\ i + 1 <= Len(s) /\ s[i + 1] = "\n" THEN 2
  ELSE -1

\* the length of the match of /(^|\r?\n)\s*(?:(\d+\.)|([bullet]))\s+/ at i, 0 when none
ListItemLenAt(s, i) ==
  LET p == LineStartLenAt(s, i)
      w == RunLen(s, i + p, WhiteSpace)
      m == MarkerLenAt(s, i + p + w)
      t == RunLen(s, i + p + w + m, WhiteSpace)
  IN IF p >= 0 /\ m > 0 /\ t > 0 THEN p + w + m + t ELSE 0

\* replace(/(^|\r?\n)\s*(?:(\d+\.)|([bullet]))\s+/g, '$1|||')
RECURSIVE ListBoundaries(_, _)
ListBoundaries(s, i) ==
  LET j == FirstFrom(s, i, LAMBDA k : ListItemLenAt(s, k) > 0)
  IN IF j = 0 THEN SubSeq(s, i, Len(s))
     ELSE SubSeq(s, i, j + LineStartLenAt(s, j) - 1) \o BOUNDARY
            \o ListBoundaries(s, j + ListItemLenAt(s, j))

\* the length of the match of /:\s+(?=\d+\.|[bullet])/ at i, 0 when none
ColonLenAt(s, i) ==
  LET w == RunLen(s, i + 1, WhiteSpace)
  IN IF s[i] = ":" /\ w > 0 /\ MarkerLenAt(s, i + 1 + w) > 0 THEN 1 + w ELSE 0

\* replace(/:\s+(?=\d+\.|[bullet])/g, ':|||')
RECURSIVE ColonBoundaries(_, _)
ColonBoundaries(s, i) ==
  LET j == FirstFrom(s, i, LAMBDA k : ColonLenAt(s, k) > 0)
  IN IF j = 0 THEN SubSeq(s, i, Len(s))
     ELSE SubSeq(s, i, j) \o BOUNDARY \o ColonBoundaries(s, j + ColonLenAt(s, j))

\* split(sep), from position i on
RECURSIVE SplitOn(_, _, _)
SplitOn(s, sep, i) ==
  LET j == FirstFrom(s, i, LAMBDA k : StartsWithAt(s, k, sep))
  IN IF j = 0 THEN << SubSeq(s, i, Len(s)) >>
     ELSE << SubSeq(s, i, j - 1) >> \o SplitOn(s, sep, j + Len(sep))

\* the lookahead (?=\s|$|<|["')\]]) at position k
TerminatorFollows(t, k) ==
  k > Len(t) \/ t[k] \in WhiteSpace \cup { "<", "\"", "'", ")", "]" }

\* the length of the match of sentencePattern at j, 0 when none
TerminatorLenAt(t, j) ==
  IF t[j] = "u8230" /\ TerminatorFollows(t, j + 1) THEN 1
  ELSE IF StartsWithAt(t, j, << ".", ".", "." >>) /\ TerminatorFollows(t, j + 3) THEN 3
  ELSE IF t[j] \in { ".", "!", "?" } /\ TerminatorFollows(t, j + 1) THEN 1
  ELSE 0

NonEmpty(ss) == SelectSeq(ss, LAMBDA x : x # <<>>)

\* the while (regex.exec(trimmed)) loop and the remaining text after it
RECURSIVE SentencesFrom(_, _, _)
SentencesFrom(t, j, lastIndex) ==
  LET m == FirstFrom(t, j, LAMBDA k : TerminatorLenAt(t, k) > 0)
      endIndex == m + TerminatorLenAt(t, m)
  IN IF m = 0
     THEN IF lastIndex <= Len(t) THEN << Trim(SubSeq(t, lastIndex, Len(t))) >> ELSE <<>>
     ELSE << Trim(SubSeq(t, lastIndex, endIndex - 1)) >> \o SentencesFrom(t, endIndex, endIndex)

\* the body of for (const part of parts)
SentencesOfPart(part) ==
  LET trimmed == Trim(part)
      sentences == NonEmpty(SentencesFrom(trimmed, 1, 1))
  IN IF trimmed = <<>> THEN <<>>
     ELSE IF sentences = <<>> THEN << trimmed >>
     ELSE sentences

RECURSIVE SentencesOfParts(_)
SentencesOfParts(parts) ==
  IF parts = <<>> THEN <<>>
  ELSE SentencesOfPart(Head(parts)) \o SentencesOfParts(Tail(parts))

\* replace(new RegExp(pat, 'g'), rep) for a pattern without special characters
RECURSIVE ReplaceAll(_, _, _, _)
ReplaceAll(s, pat, rep, i) ==
  LET j == FirstFrom(s, i, LAMBDA k : StartsWithAt(s, k, pat))
  IN IF j = 0 THEN SubSeq(s, i, Len(s))
     ELSE SubSeq(s, i, j - 1) \o rep \o ReplaceAll(s, pat, rep, j + Len(pat))

\* abbrevMap.forEach((original, placeholder) => ...), in insertion order
RECURSIVE RestoreAbbreviations(_, _)
RestoreAbbreviations(s, map) ==
  IF map = <<>> THEN s
  ELSE RestoreAbbreviations(
         ReplaceAll(s, Placeholder(Head(map).idx), Head(map).original, 1), Tail(map))

\* replace(/^[bullet]\s+/, '')
StripLeadingBullet(s) ==
  IF s # <<>> /\ s[1] \in BulletChars /\ RunLen(s, 2, WhiteSpace) > 0
  THEN SubSeq(s, 2 + RunLen(s, 2, WhiteSpace), Len(s))
  ELSE s

\* the function mapped over segments
RestoreSegment(segment, map) ==
  Trim(StripLeadingBullet(
    ReplaceAll(RestoreAbbreviations(segment, map), DECIMAL_DOT, << "." >>, 1)))

\* the return without its fallback
SegmentsOnly(restored, original) == restored

\* restoredSegments.length > 0 ? restoredSegments : [text]
SegmentsOrText(restored, original) == IF Len(restored) > 0 THEN restored ELSE << original >>


\* segmentIntoSentences(t) as one function
segmentIntoSentences(t) ==
  LET n == Normalize(t)
      pa == ProtectAbbreviations(ProtectDecimals(n, 1), <<>>, 0)
      b == ColonBoundaries(ListBoundaries(pa[1], 1), 1)
      segs == SentencesOfParts(SplitOn(b, BOUNDARY, 1))
      restored == NonEmpty([k \in DOMAIN segs |-> RestoreSegment(segs[k], pa[2])])
  IN IF t = <<>> \/ n = <<>> THEN << t >> ELSE SegmentsOrText(restored, t)

\* ---- the texts segmentIntoSentences is called with ----

MaxSegTokens == 3

SegmentTokens ==
  { << "D", "r", "." >>, << "D", "R", "." >>, << "M", "r", "." >>, << "." >>, << " " >>,
    << "x" >>, << " ", "x" >>, << "1" >>, << ":" >>, << "-" >>, << "|", "|", "|" >> }

DrSmithText ==
  << "D", "r", ".", " ", "S", "m", "i", "t", "h", " ", "i", "s", " ", "h", "e", "r",
     "e", ".", " ", "H", "e", " ", "l", "e", "f", "t", "." >>

RateText ==
  << "R", "a", "t", "e", " ", "i", "s", " ", "3", ".", "5", " ", "t", "o", "d", "a",
     "y", "." >>

SkinConditionText ==
  << "D", "u", "r", "i", "n", "g", " ", "t", "h", "e", " ", "p", "a", "s", "t", " ",
     "7", " ", "d", "a", "y", "s", ",", " ", "h", "o", "w", " ", "o", "f", "t", "e",
     "n", " ", "h", "a", "v", "e", " ", "y", "o", "u", " ", "b", "e", "e", "n", " ",
     "b", "o", "t", "h", "e", "r", "e", "d", " ", "b", "y", ":", "\n", "2", ".", " ",
     "Y", "o", "u", "r", " ", "s", "k", "i", "n", " ", "c", "o", "n", "d", "i", "t",
     "i", "o", "n" >>

ScoreText ==
  << "S", "c", "o", "r", "e", ":", " ", "-", "5", " ", "p", "o", "i", "n", "t", "s" >>

RatioText ==
  << "R", "a", "t", "i", "o", ":", " ", "3", ".", "5" >>


SegmentExamples == { DrSmithText, RateText, SkinConditionText, ScoreText, RatioText }

\* an introduction ending in a colon, whitespace or a line break, one enumerated item
ColonListTexts ==
  { intro \o << ":" >> \o ws \o n \o << ".", " " >> \o item :
      intro \in { << "A" >>, << "Q" >>, << "N", "e", "x", "t", " ", "7", " ", "d", "a", "y", "s" >> },
      ws \in { << " " >>, << "\n" >>, << " ", "\n", " " >>, << "u65532", " ", "u65532" >> },
      n \in { << "1" >>, << "2" >>, << "1", "0" >> },
      item \in { << "X" >>, << "Y" >>, << "Y", "o", "u", "r", " ", "s", "k", "i", "n" >> } }

\* a line a, then one or two list items b and c, each after a line break: the line
\* ends with nothing, a terminator, a colon or a comma
LineListTexts ==
  { lead \o br \o marker \o << " ", "b" >> \o more :
      lead \in { << "a" >>, << "a", "." >>, << "a", ":" >>, << "a", "," >> },
      br \in { << "\n" >>, << "\r", "\n" >>, << "\n", " " >> },
      marker \in { << "1", "." >>, << "-" >>, << "u8226" >> },
      more \in { <<>>, << "\n", "2", ".", " ", "c" >>, << "\n", "-", " ", "c" >> } }

\* the texts of up to n tokens, the examples, the colon lists, the lists of lines
SegmentInputs(n) ==
  TokenTexts(SegmentTokens, n) \cup SegmentExamples \cup ColonListTexts \cup LineListTexts

InitSegment ==
  /\ pc = "segment"
  /\ text \in SegmentInputs(MaxSegTokens)
  /\ SegmentIdle
  /\ DecodeIdle
  /\ InlineIdle
  /\ FlattenIdle
  /\ AlignIdle
  /\ IdIdle
  /\ LangIdle
  /\ SerializeIdle
  /\ UploadIdle

\* if (!text) return [text]; normalizedText = ...; if (!normalizedText) return [text]
SegmentNormalize ==
  /\ pc = "segment"
  /\ normalizedText' = Normalize(text)
  /\ IF text = <<>> \/ Normalize(text) = <<>>
     THEN restoredSegments' = << text >> /\ pc' = "segmented"
     ELSE restoredSegments' = restoredSegments /\ pc' = "segment_protect"
  /\ UNCHANGED <<text, processedText, abbrevMap, segments, notSegment>>

\* the decimal dots and the abbreviations give way to placeholders
SegmentProtect ==
  /\ pc = "segment_protect"
  /\ LET pa == ProtectAbbreviations(ProtectDecimals(normalizedText, 1), <<>>, 0)
     IN processedText' = pa[1] /\ abbrevMap' = pa[2]
  /\ pc' = "segment_boundaries"
  /\ UNCHANGED <<text, normalizedText, segments, restoredSegments, notSegment>>

\* the sentinel goes before list items and after a colon that introduces one
SegmentBoundaries ==
  /\ pc = "segment_boundaries"
  /\ processedText' = ColonBoundaries(ListBoundaries(processedText, 1), 1)
  /\ pc' = "segment_split"
  /\ UNCHANGED <<text, normalizedText, abbrevMap, segments, restoredSegments, notSegment>>

\* split on the sentinel, then every part on its sentence endings
SegmentSplit ==
  /\ pc = "segment_split"
  /\ segments' = SentencesOfParts(SplitOn(processedText, BOUNDARY, 1))
  /\ pc' = "segment_restore"
  /\ UNCHANGED <<text, normalizedText, processedText, abbrevMap, restoredSegments, notSegment>>

\* restore, strip, drop the empty segments, fall back to [text]
SegmentRestore ==
  /\ pc = "segment_restore"
  /\ restoredSegments' =
       SegmentsOrText(NonEmpty([k \in DOMAIN segments |-> RestoreSegment(segments[k], abbrevMap)]),
                      text)
  /\ pc' = "segmented"
  /\ UNCHANGED <<text, normalizedText, processedText, abbrevMap, segments, notSegment>>

NextSegment ==
  \/ SegmentNormalize
  \/ SegmentProtect
  \/ SegmentBoundaries
  \/ SegmentSplit
  \/ SegmentRestore

SpecSegment == InitSegment /\ [][NextSegment]_vars


-----------------------------------------------------------------------------
(* Claims about segmentIntoSentences *)

NoWhiteSpace(s) == SelectSeq(s, LAMBDA c : c \notin WhiteSpace)

Contains(s, p) == \E i \in 1..Len(s) : StartsWithAt(s, i, p)

\* the texts that hold none of the strings the function uses as its own sentinels
FreeOfSentinels(s) ==
  /\ ~Contains(s, BOUNDARY)
  /\ ~Contains(s, DECIMAL_DOT)
  /\ ~Contains(s, << "_", "_", "A", "B", "B", "R", "E", "V", "_" >>)

\* C3: for a non-empty text the function returns at least one segment, none empty
C3_SegmentsNonEmpty ==
  (pc = "segmented" /\ text # <<>>) =>
    /\ Len(restoredSegments) >= 1
    /\ \A k \in DOMAIN restoredSegments : restoredSegments[k] # <<>>

\* a text all of whose parts were dropped: the function fell back to [text]
C3_Witness ==
  /\ pc = "segmented" /\ text # <<>> /\ normalizedText # <<>>
  /\ segments = <<>> /\ restoredSegments = << text >>

\* the lengths of what may be missing at a segment start: nothing, a bullet, N.
MarkerLengths(rest) ==
  { 0 } \cup { MarkerLenAt(rest, 1) }

\* rest is the segments one after the other, each behind an optional list marker
RECURSIVE Reconstructs(_, _)
Reconstructs(rest, segs) ==
  IF segs = <<>> THEN rest = <<>>
  ELSE \E m \in MarkerLengths(rest) :
         /\ StartsWithAt(rest, m + 1, NoWhiteSpace(Head(segs)))
         /\ Reconstructs(SubSeq(rest, m + 1 + Len(NoWhiteSpace(Head(segs))), Len(rest)),
                         Tail(segs))

\* C4 as claimed: whitespace aside, the segments one after the other are the
\* characters of the normalized text, less only list markers at segment starts
C4_SegmentsReconstructText ==
  (pc = "segmented" /\ normalizedText # <<>> /\ FreeOfSentinels(text)) =>
    Reconstructs(NoWhiteSpace(normalizedText), restoredSegments)

\* the segment is an enumerated item: it starts with digits and a dot
StartsWithEnumerator(s) == s # <<>> /\ s[1] \in Digits /\ MarkerLenAt(s, 1) > 0

\* C5 as claimed: an introduction ending in a colon followed by one enumerated
\* item gives 2 segments, the introduction with its colon and the item with its N.
C5_ColonListTwoSegments ==
  (pc = "segmented" /\ text \in ColonListTexts \cup { SkinConditionText }) =>
    /\ Len(restoredSegments) = 2
    /\ EndsWith(restoredSegments[1], << ":" >>)
    /\ StartsWithEnumerator(restoredSegments[2])
    /\ Len(restoredSegments[2]) > MarkerLenAt(restoredSegments[2], 1)

\* the abbreviations as written, without the wildcard reading of their dots
LiteralAbbrevEnds(s, abbrev) ==
  LET n == Len(abbrev)
      at == Len(s) - n
  IN /\ at >= 1
     /\ s[Len(s)] = "."
     /\ \A k \in 1..n : ToLower(s[at + k - 1]) = ToLower(abbrev[k])
     /\ at = 1 \/ s[at - 1] \notin WordChars

EndsWithAbbreviation(s) ==
  \E a \in DOMAIN abbreviations : LiteralAbbrevEnds(s, abbreviations[a])

\* segments k and k+1 were cut at a dot that stands between two digits
CutInsideDecimal(s, k) ==
  /\ Len(s[k]) >= 2 /\ s[k][Len(s[k])] = "." /\ s[k][Len(s[k]) - 1] \in Digits
  /\ s[k + 1][1] \in Digits
  /\ Contains(normalizedText, s[k] \o s[k + 1])

DrSmithSegments ==
  <<
    << "D", "r", ".", " ", "S", "m", "i", "t", "h", " ", "i", "s", " ", "h", "e", "r",
       "e", "." >>,
    << "H", "e", " ", "l", "e", "f", "t", "." >>
  >>

\* C6 as claimed: no segment ends at the dot of a listed abbreviation or at a dot
\* between two digits, and the two examples segment as stated
C6_NoSplitAtProtectedDot ==
  (pc = "segmented" /\ normalizedText # <<>> /\ FreeOfSentinels(text)) =>
    /\ \A k \in 1..(Len(restoredSegments) - 1) :
         /\ ~EndsWithAbbreviation(restoredSegments[k])
         /\ ~CutInsideDecimal(restoredSegments, k)
    /\ text = DrSmithText => restoredSegments = DrSmithSegments
    /\ text = RateText => restoredSegments = << RateText >>


-----------------------------------------------------------------------------
(* html-tag-parser.ts: convertHtmlTagsToTmxInline and escapeXmlExceptTmxTags. *)
(* Positions count from 1 where the code counts from 0.                      *)

\* [a-zA-Z0-9]
AlphaNumerics == Letters \cup Digits

standaloneTagNames ==
  << << "b", "r" >>, << "h", "r" >>, << "i", "m", "g" >>,
     << "i", "n", "p", "u", "t" >>, << "m", "e", "t", "a" >>,
     << "l", "i", "n", "k" >> >>

\* the first position from i on at which s holds c, 0 when there is none
IndexOfFrom(s, c, i) == FirstFrom(s, i, LAMBDA k : s[k] = c)

\* <\/? of tagRegex at i: where the name starts
TagNameStart(s, i) == IF i + 1 <= Len(s) /\ s[i + 1] = "/" THEN i + 2 ELSE i + 1

\* the position of the > that ends the match of tagRegex at i, 0 when it does not match
TagEndAt(s, i) ==
  LET n == TagNameStart(s, i)
  IN IF s[i] = "<" /\ n <= Len(s) /\ s[n] \in Letters THEN IndexOfFrom(s, ">", n + 1) ELSE 0

\* tagRegex.exec(text) from lastIndex i on: the position of the match, 0 for null
NextTagFrom(s, i) == FirstFrom(s, i, LAMBDA k : TagEndAt(s, k) > 0)

\* match[1]
TagNameAt(s, i) ==
  LET n == TagNameStart(s, i) IN SubSeq(s, n, n + RunLen(s, n, AlphaNumerics) - 1)

\* tagName.toLowerCase()
LowerCaseOf(name) == [k \in DOMAIN name |-> ToLower(name[k])]

isSelfClosing(fullTag) == EndsWith(fullTag, << "/", ">" >>)

isClosing(fullTag) == StartsWithAt(fullTag, 1, << "<", "/" >>)

\* the last entry of the stack with the name, 0 when there is none
FindLastIndex(stack, tagName) ==
  IF \E k \in DOMAIN stack : stack[k].tagName = tagName
  THEN CHOOSE k \in DOMAIN stack :
         /\ stack[k].tagName = tagName
         /\ \A j \in (k + 1)..Len(stack) : stack[j].tagName # tagName
  ELSE 0

\* tagStack.findIndex(t => t.tagName === tagName), 0 for -1
FindIndex(stack, tagName) ==
  IF \E k \in DOMAIN stack : stack[k].tagName = tagName
  THEN CHOOSE k \in DOMAIN stack :
         /\ stack[k].tagName = tagName
         /\ \A j \in 1..(k - 1) : stack[j].tagName # tagName
  ELSE 0

\* the stack without its top entry
SpliceTop(seq, k) == SubSeq(seq, 1, Len(seq) - 1)

\* splice(k, 1)
Splice(seq, k) == SubSeq(seq, 1, k - 1) \o SubSeq(seq, k + 1, Len(seq))

\* the tags with the opening tag of an unclosed stack entry kept as a paired start
Undemoted(tgs, unclosed) == tgs

\* tags.find(t => t.index === unclosed.startIndex).type = 'standalone'
Demote(tgs, unclosed) ==
  [k \in DOMAIN tgs |->
     IF tgs[k].index = unclosed.startIndex
        /\ \A j \in 1..(k - 1) : tgs[j].index # unclosed.startIndex
     THEN [tgs[k] EXCEPT !.type = "standalone"]
     ELSE tgs[k]]

\* tags.sort((a, b) => b.index - a.index)
RECURSIVE SortByIndexDesc(_)
SortByIndexDesc(tgs) ==
  IF tgs = <<>> THEN <<>>
  ELSE LET m == CHOOSE k \in DOMAIN tgs : \A j \in DOMAIN tgs : tgs[j].index <= tgs[k].index
       IN << tgs[m] >> \o SortByIndexDesc(Splice(tgs, m))

XmlAmp == << "&", "a", "m", "p", ";" >>

XmlLt == << "&", "l", "t", ";" >>

XmlGt == << "&", "g", "t", ";" >>

XmlQuot == << "&", "q", "u", "o", "t", ";" >>

XmlApos == << "&", "a", "p", "o", "s", ";" >>

\* the five replace() calls, in their order
escapeXmlContent(t) ==
  ReplaceAll(ReplaceAll(ReplaceAll(ReplaceAll(ReplaceAll(t,
    << "&" >>, XmlAmp, 1), << "<" >>, XmlLt, 1), << ">" >>, XmlGt, 1),
    << "\"" >>, XmlQuot, 1), << "'" >>, XmlApos, 1)

\* the element name of the switch (tag.type)
InlineName(type) ==
  IF type = "paired-start" THEN << "b", "p", "t" >>
  ELSE IF type = "paired-end" THEN << "e", "p", "t" >>
  ELSE << "p", "h" >>

\* tmxInline
TmxInline(tag) ==
  << "<" >> \o InlineName(tag.type) \o << " ", "i", "=", "\"" >> \o DigitsOf(tag.pairId)
    \o << "\"", ">" >> \o escapeXmlContent(tag.fullTag)
    \o << "<", "/" >> \o InlineName(tag.type) \o << ">" >>

\* for (const tag of tags) result = ... over the sorted tags
RECURSIVE ReplaceTags(_, _)
ReplaceTags(res, tgs) ==
  IF tgs = <<>> THEN res
  ELSE LET tag == Head(tgs)
       IN ReplaceTags(SubSeq(res, 1, tag.index - 1) \o TmxInline(tag)
                        \o SubSeq(res, tag.index + Len(tag.fullTag), Len(res)),
                      Tail(tgs))

\* (bpt|ept|ph) at i: the length of the name, 0 when none is there
InlineNameLenAt(s, i) ==
  IF StartsWithAt(s, i, << "b", "p", "t" >>) THEN 3
  ELSE IF StartsWithAt(s, i, << "e", "p", "t" >>) THEN 3
  ELSE IF StartsWithAt(s, i, << "p", "h" >>) THEN 2
  ELSE 0

\* <\/(bpt|ept|ph)> at e: its length, 0 when it is not there
CloserLenAt(s, e) ==
  LET n == InlineNameLenAt(s, e + 2)
  IN IF StartsWithAt(s, e, << "<", "/" >>) /\ n > 0 /\ StartsWithAt(s, e + 2 + n, << ">" >>)
     THEN n + 3 ELSE 0

\* .*?<\/(bpt|ept|ph)> from e on: the position after the match, 0 when a line
\* terminator or the end of the text comes before a closer
LazyCloserFrom(s, e) ==
  LET j == FirstFrom(s, e, LAMBDA k : CloserLenAt(s, k) > 0 \/ s[k] \in LineTerminators)
  IN IF j > 0 /\ CloserLenAt(s, j) > 0 THEN j + CloserLenAt(s, j) ELSE 0

\* /<(bpt|ept|ph)([^>]*)>.*?<\/(bpt|ept|ph)>/ at i: the position after the match, 0 for none
WrapperEndAt(s, i) ==
  LET n == InlineNameLenAt(s, i + 1)
      gt == IndexOfFrom(s, ">", i + 1 + n)
  IN IF s[i] = "<" /\ n > 0 /\ gt > 0 THEN LazyCloserFrom(s, gt + 1) ELSE 0

TMX_TAG == << "_", "_", "_", "T", "M", "X", "_", "T", "A", "G", "_" >>

\* `${placeholder}${tmxTags.length - 1}___`
TmxPlaceholder(n) == TMX_TAG \o DigitsOf(n) \o << "_", "_", "_" >>

\* text.replace(wrapper pattern, ...): the text with the n-th match from i on replaced
RECURSIVE ProtectedText(_, _, _)
ProtectedText(s, i, n) ==
  LET j == FirstFrom(s, i, LAMBDA k : WrapperEndAt(s, k) > 0)
  IN IF j = 0 THEN SubSeq(s, i, Len(s))
     ELSE SubSeq(s, i, j - 1) \o TmxPlaceholder(n) \o ProtectedText(s, WrapperEndAt(s, j), n + 1)

\* tmxTags.push(match) for every match from i on
RECURSIVE ProtectedTags(_, _)
ProtectedTags(s, i) ==
  LET j == FirstFrom(s, i, LAMBDA k : WrapperEndAt(s, k) > 0)
  IN IF j = 0 THEN <<>>
     ELSE << SubSeq(s, j, WrapperEndAt(s, j) - 1) >> \o ProtectedTags(s, WrapperEndAt(s, j))

\* ___TMX_TAG_(\d+)___ at i: the number of digits matched, 0 when it does not match
PlaceholderDigitsAt(s, i) ==
  LET d == RunLen(s, i + Len(TMX_TAG), Digits)
  IN IF StartsWithAt(s, i, TMX_TAG) /\ d > 0
        /\ StartsWithAt(s, i + Len(TMX_TAG) + d, << "_", "_", "_" >>)
     THEN d ELSE 0

Undefined == << "u", "n", "d", "e", "f", "i", "n", "e", "d" >>

\* tmxTags[parseInt(index)], as the text replace() puts in
TmxTagAt(found, index) ==
  IF ParseInt(index, 10) < Len(found) THEN found[ParseInt(index, 10) + 1] ELSE Undefined

\* result.replace(new RegExp(`${placeholder}(\\d+)___`, 'g'), ...)
RECURSIVE RestoreTmxTags(_, _, _)
RestoreTmxTags(s, found, i) ==
  LET j == FirstFrom(s, i, LAMBDA k : PlaceholderDigitsAt(s, k) > 0)
      d == PlaceholderDigitsAt(s, j)
  IN IF j = 0 THEN SubSeq(s, i, Len(s))
     ELSE SubSeq(s, i, j - 1)
            \o TmxTagAt(found, SubSeq(s, j + Len(TMX_TAG), j + Len(TMX_TAG) + d - 1))
            \o RestoreTmxTags(s, found, j + Len(TMX_TAG) + d + 3)

\* ---- the texts convertHtmlTagsToTmxInline is called with ----

MaxInlineTokens == 3

InlineTokens ==
  { << "<", "b", ">" >>, << "<", "/", "b", ">" >>, << "<", "i", ">" >>,
    << "<", "b", "r", ">" >>, << "<", "b", "r", "/", ">" >>,
    << "<", "a", "\n", "b", "=", "\"", "1", "\"", ">" >>,
    << "<", "/", "a", ">" >>, << "x" >>, << "&" >>, << "<" >> }

BoldHiText == << "<", "b", ">", "h", "i", "<", "/", "b", ">" >>

NestedSameNameText ==
  << "<", "b", ">", "<", "b", ">", "<", "/", "b", ">", "<", "/", "b", ">" >>

InlineExamples == { BoldHiText, NestedSameNameText }

\* the texts of up to n tokens, the examples
InlineInputs(n) == TokenTexts(InlineTokens, n) \cup InlineExamples

InitInline ==
  /\ pc = "inline_scan"
  /\ text \in InlineInputs(MaxInlineTokens)
  /\ InlineIdle
  /\ DecodeIdle
  /\ SegmentIdle
  /\ FlattenIdle
  /\ AlignIdle
  /\ IdIdle
  /\ LangIdle
  /\ SerializeIdle
  /\ UploadIdle

\* one turn of while ((match = tagRegex.exec(text)) !== null)
InlineScanTag ==
  /\ pc = "inline_scan"
  /\ NextTagFrom(text, tagRegexLastIndex) > 0
  /\ LET index == NextTagFrom(text, tagRegexLastIndex)
         fullTag == SubSeq(text, index, TagEndAt(text, index))
         tagName == TagNameAt(text, index)
         matchingIndex == FindIndex(tagStack, tagName)
         tag(type, pairId) ==
           [type |-> type, fullTag |-> fullTag, tagName |-> tagName,
            index |-> index, pairId |-> pairId]
     IN /\ tagRegexLastIndex' = TagEndAt(text, index) + 1
        /\ IF isSelfClosing(fullTag)
           THEN /\ tags' = Append(tags, tag("self-closing", tagIdCounter))
                /\ tagIdCounter' = tagIdCounter + 1
                /\ tagStack' = tagStack
           ELSE IF isClosing(fullTag)
           THEN IF matchingIndex # 0
                THEN /\ tags' = Append(tags, tag("paired-end", tagStack[matchingIndex].id))
                     /\ tagStack' = Splice(tagStack, matchingIndex)
                     /\ tagIdCounter' = tagIdCounter
                ELSE /\ tags' = Append(tags, tag("standalone", tagIdCounter))
                     /\ tagIdCounter' = tagIdCounter + 1
                     /\ tagStack' = tagStack
           ELSE IF \E k \in DOMAIN standaloneTagNames :
                     standaloneTagNames[k] = LowerCaseOf(tagName)
           THEN /\ tags' = Append(tags, tag("standalone", tagIdCounter))
                /\ tagIdCounter' = tagIdCounter + 1
                /\ tagStack' = tagStack
           ELSE /\ tags' = Append(tags, tag("paired-start", tagIdCounter))
                /\ tagStack' = Append(tagStack, [tagName |-> tagName, id |-> tagIdCounter,
                                                 startIndex |-> index])
                /\ tagIdCounter' = tagIdCounter + 1
  /\ pc' = pc
  /\ UNCHANGED <<text, inlineResult, tmxTags, escapedResult, notInline>>

\* tagRegex.exec(text) returns null
InlineScanEnd ==
  /\ pc = "inline_scan"
  /\ NextTagFrom(text, tagRegexLastIndex) = 0
  /\ pc' = "inline_unclosed"
  /\ UNCHANGED <<text, inlineVars, notInline>>

\* one turn of while (tagStack.length > 0)
InlineDemote ==
  /\ pc = "inline_unclosed"
  /\ Len(tagStack) > 0
  /\ tags' = Demote(tags, tagStack[Len(tagStack)])
  /\ tagStack' = SubSeq(tagStack, 1, Len(tagStack) - 1)
  /\ pc' = pc
  /\ UNCHANGED <<text, tagIdCounter, tagRegexLastIndex, inlineResult, tmxTags, escapedResult,
                 notInline>>

\* the second pass: tags.sort(...), the rewriting loop, return result
InlineRewrite ==
  /\ pc = "inline_unclosed"
  /\ Len(tagStack) = 0
  /\ tags' = SortByIndexDesc(tags)
  /\ inlineResult' = ReplaceTags(text, SortByIndexDesc(tags))
  /\ pc' = "inlined"
  /\ UNCHANGED <<text, tagIdCounter, tagStack, tagRegexLastIndex, tmxTags, escapedResult, notInline>>

\* escapeXmlExceptTmxTags(withInlineTags): the wrappers give way to placeholders
EscapeProtect ==
  /\ pc = "inlined"
  /\ tmxTags' = ProtectedTags(inlineResult, 1)
  /\ escapedResult' = ProtectedText(inlineResult, 1, 0)
  /\ pc' = "escape"
  /\ UNCHANGED <<text, tags, tagIdCounter, tagStack, tagRegexLastIndex, inlineResult, notInline>>

\* the five replace() calls on what remains
EscapeRemaining ==
  /\ pc = "escape"
  /\ escapedResult' = escapeXmlContent(escapedResult)
  /\ pc' = "escape_restore"
  /\ UNCHANGED <<text, tags, tagIdCounter, tagStack, tagRegexLastIndex, inlineResult, tmxTags,
                 notInline>>

\* the placeholders give way to the wrappers; return result
EscapeRestore ==
  /\ pc = "escape_restore"
  /\ escapedResult' = RestoreTmxTags(escapedResult, tmxTags, 1)
  /\ pc' = "escaped"
  /\ UNCHANGED <<text, tags, tagIdCounter, tagStack, tagRegexLastIndex, inlineResult, tmxTags,
                 notInline>>

NextInline ==
  \/ InlineScanTag
  \/ InlineScanEnd
  \/ InlineDemote
  \/ InlineRewrite
  \/ EscapeProtect
  \/ EscapeRemaining
  \/ EscapeRestore

SpecInline == InitInline /\ [][NextInline]_vars

-----------------------------------------------------------------------------
(* Claims about convertHtmlTagsToTmxInline and escapeXmlExceptTmxTags *)

\* the id of a wrapper opening at i: the digits of <name i="digits">, none when
\* no wrapper opens there
WrapperIdAt(s, i, name) ==
  LET at == i + 1 + Len(name) + 4
      d == RunLen(s, at, Digits)
  IN IF StartsWithAt(s, i, << "<" >> \o name \o << " ", "i", "=", "\"" >>) /\ d > 0
        /\ StartsWithAt(s, at + d, << "\"", ">" >>)
     THEN SubSeq(s, at, at + d - 1) ELSE <<>>

InlineNames == { << "b", "p", "t" >>, << "e", "p", "t" >>, << "p", "h" >> }

\* the wrappers that open in s from i on, in their order: kind and id
RECURSIVE Wrappers(_, _)
Wrappers(s, i) ==
  LET j == FirstFrom(s, i, LAMBDA k : \E name \in InlineNames : WrapperIdAt(s, k, name) # <<>>)
      name == CHOOSE x \in InlineNames : WrapperIdAt(s, j, x) # <<>>
  IN IF j = 0 THEN <<>>
     ELSE << [kind |-> Join(name), id |-> ParseInt(WrapperIdAt(s, j, name), 10)] >>
            \o Wrappers(s, j + 1)

\* the tag opens an element that needs a closer: <name ...>, not void, not <name .../>
OpensElement(tag) ==
  /\ ~isSelfClosing(tag.fullTag)
  /\ ~isClosing(tag.fullTag)
  /\ \A k \in DOMAIN standaloneTagNames : standaloneTagNames[k] # LowerCaseOf(tag.tagName)

\* C7: in the output every begin-pair wrapper has exactly one end-pair wrapper
\* with its id, later in the text, every end-pair wrapper exactly one earlier
\* begin-pair wrapper with its id, no placeholder shares an id with a pair, and
\* the wrappers are the tags in their order, an opening tag being a begin-pair
\* only when a closing tag was paired with it
C7_PairedWrappers ==
  pc = "inlined" =>
    LET ws == Wrappers(inlineResult, 1)
        n == Len(ws)
    IN /\ \A i \in 1..n : ws[i].kind = "bpt" =>
            /\ Cardinality({ j \in 1..n : ws[j].kind = "ept" /\ ws[j].id = ws[i].id }) = 1
            /\ \A j \in 1..n : (ws[j].kind = "ept" /\ ws[j].id = ws[i].id) => j > i
       /\ \A j \in 1..n : ws[j].kind = "ept" =>
            /\ Cardinality({ i \in 1..n : ws[i].kind = "bpt" /\ ws[i].id = ws[j].id }) = 1
            /\ \A i \in 1..n : (ws[i].kind = "bpt" /\ ws[i].id = ws[j].id) => i < j
       /\ \A i, j \in 1..n : (ws[i].kind = "ph" /\ ws[j].kind # "ph") => ws[i].id # ws[j].id
       /\ n = Len(tags)
       /\ \A k \in 1..n :
            LET tag == tags[n + 1 - k]
            IN /\ ws[k].id = tag.pairId
               /\ ws[k].kind = "bpt" <=>
                    /\ OpensElement(tag)
                    /\ \E c \in 1..n : /\ tags[c].index > tag.index
                                       /\ isClosing(tags[c].fullTag)
                                       /\ ~isSelfClosing(tags[c].fullTag)
                                       /\ tags[c].pairId = tag.pairId

\* a pair around an opening tag that found no closer and came out as a placeholder
C7_Witness ==
  /\ pc = "inlined"
  /\ \E i, j, k \in DOMAIN tags :
       /\ tags[i].type = "paired-start" /\ tags[k].type = "paired-end"
       /\ tags[i].pairId = tags[k].pairId
       /\ tags[j].type = "standalone" /\ OpensElement(tags[j])
       /\ tags[i].index < tags[j].index /\ tags[j].index < tags[k].index
  /\ \E w \in DOMAIN Wrappers(inlineResult, 1) : Wrappers(inlineResult, 1)[w].kind = "bpt"

\* the tags in the order of the text
TagsInOrder == [k \in DOMAIN tags |-> tags[Len(tags) + 1 - k]]

\* the text with every tag given way to its wrapper, verbatim, and the five
\* reserved characters escaped everywhere else
RECURSIVE EscapedAround(_, _, _)
EscapedAround(s, tgs, i) ==
  IF tgs = <<>> THEN escapeXmlContent(SubSeq(s, i, Len(s)))
  ELSE escapeXmlContent(SubSeq(s, i, Head(tgs).index - 1)) \o TmxInline(Head(tgs))
         \o EscapedAround(s, Tail(tgs), Head(tgs).index + Len(Head(tgs).fullTag))

\* C8 as claimed: every wrapper of toInline(T) stands verbatim in
\* escapeKeepingInline(toInline(T)), its tag text escaped once, and the five
\* reserved characters are escaped everywhere outside the wrappers
C8_WrappersKeptVerbatim ==
  pc = "escaped" => escapedResult = EscapedAround(text, TagsInOrder, 1)

-----------------------------------------------------------------------------
(* flattenJSON.  A JSON value is [t |-> its kind, v |-> what it holds]: the  *)
(* text of a string, the members [key, value] of an object in the order      *)
(* for...in visits them, the items of an array.                              *)

Str(x) == [t |-> "string", v |-> x]

Num == [t |-> "number", v |-> "1"]

Bool == [t |-> "boolean", v |-> "true"]

Null == [t |-> "null", v |-> "null"]

Obj(members) == [t |-> "object", v |-> members]

Arr(items) == [t |-> "array", v |-> items]

Member(key, value) == [key |-> key, value |-> value]

\* typeof value
TypeOf(value) == IF value.t \in { "object", "array", "null" } THEN "object" ELSE value.t

\* Array.isArray(value)
IsArray(value) == value.t = "array"

\* the own enumerable properties for (const key in obj) visits
OwnProperties(obj) ==
  IF obj.t = "object" THEN obj.v
  ELSE IF obj.t = "array" THEN [k \in DOMAIN obj.v |-> Member(ToString(k - 1), obj.v[k])]
  ELSE <<>>

\* the key with its separator dropped
NewKeyJoined(parentKey, key) == parentKey \o key

\* parentKey ? `${parentKey}.${key}` : key
NewKey(parentKey, key) == IF parentKey # "" THEN parentKey \o "." \o key ELSE key

\* items[key] = value
SetItem(items, key, value) ==
  IF \E k \in DOMAIN items : items[k].key = key
  THEN [k \in DOMAIN items |-> IF items[k].key = key THEN Member(key, value) ELSE items[k]]
  ELSE Append(items, Member(key, value))

\* Object.assign(items, more)
RECURSIVE ObjectAssign(_, _)
ObjectAssign(items, more) ==
  IF more = <<>> THEN items
  ELSE ObjectAssign(SetItem(items, Head(more).key, Head(more).value), Tail(more))

RECURSIVE flattenJSON(_, _), ForIn(_, _, _, _), ForEach(_, _, _, _)

\* obj[key].forEach((item, idx) => ...) from idx on
ForEach(array, newKey, items, idx) ==
  IF idx >= Len(array) THEN items
  ELSE ForEach(array, newKey,
               ObjectAssign(items,
                 flattenJSON(Obj(<< Member(ToString(idx), array[idx + 1]) >>), newKey)),
               idx + 1)

\* for (const key in obj) from the k-th property on
ForIn(properties, parentKey, items, k) ==
  IF k > Len(properties) THEN items
  ELSE LET value == properties[k].value
           newKey == NewKey(parentKey, properties[k].key)
       IN ForIn(properties, parentKey,
                IF TypeOf(value) = "object" /\ ~IsArray(value) /\ value.t # "null"
                THEN ObjectAssign(items, flattenJSON(value, newKey))
                ELSE IF IsArray(value) THEN ForEach(value.v, newKey, items, 0)
                ELSE IF TypeOf(value) = "string" THEN SetItem(items, newKey, value.v)
                ELSE items,
                k + 1)

flattenJSON(obj, parentKey) == ForIn(OwnProperties(obj), parentKey, <<>>, 1)

\* ---- the contents flattenJSON is called with ----

MaxItems == 2

Leaves == { Str("x"), Str("y"), Num, Bool, Null }

ItemLeaves == { Str("x"), Num }

\* the sequences over a set of values, up to n long
RECURSIVE SeqsUpTo(_, _)
SeqsUpTo(values, n) ==
  IF n = 0 THEN { <<>> }
  ELSE SeqsUpTo(values, n - 1)
         \cup { Append(q, x) : q \in { r \in SeqsUpTo(values, n - 1) : Len(r) = n - 1 },
                               x \in values }

\* the objects with up to n of the keys, in their order, over a set of values
ObjectsOver(keys, values, n) ==
  { Obj([k \in 1..Len(picked) |-> Member(picked[k], f[picked[k]])]) :
      <<picked, f>> \in
        UNION { { <<SelectSeq(keys, LAMBDA x : x \in K), g>> : g \in [K -> values] } :
                  K \in { J \in SUBSET Range(keys) : Cardinality(J) <= n } } }

InnerKeys == << "0", "b" >>

OuterKeys == << "a", "a.b", "a.0" >>

\* the leaves, and the arrays and objects of up to n leaves
InnerValues(n) ==
  Leaves \cup { Arr(q) : q \in SeqsUpTo(ItemLeaves, n) } \cup ObjectsOver(InnerKeys, ItemLeaves, n)

\* { "a": { "b": ["x", "y", "z"] } }
ArrayInObjectDoc ==
  Obj(<< Member("a", Obj(<< Member("b", Arr(<< Str("x"), Str("y"), Str("z") >>)) >>)) >>)

\* the objects and arrays of up to n such values, and the example
Docs(n) ==
  ObjectsOver(OuterKeys, InnerValues(n), n)
    \cup { Arr(q) : q \in SeqsUpTo(InnerValues(n), n) }
    \cup { ArrayInObjectDoc }

InitFlatten ==
  /\ pc = "flatten"
  /\ doc \in Docs(MaxItems)
  /\ flat = <<>>
  /\ text = <<>>
  /\ DecodeIdle
  /\ SegmentIdle
  /\ InlineIdle
  /\ AlignIdle
  /\ IdIdle
  /\ LangIdle
  /\ SerializeIdle
  /\ UploadIdle

\* flattenJSON(content)
FlattenCall ==
  /\ pc = "flatten"
  /\ flat' = flattenJSON(doc, "")
  /\ pc' = "flattened"
  /\ UNCHANGED <<doc, notFlatten>>

NextFlatten == FlattenCall

SpecFlatten == InitFlatten /\ [][NextFlatten]_vars

-----------------------------------------------------------------------------
(* Claims about flattenJSON *)

KeySegment(key) == [kind |-> "key", name |-> key]

IndexSegment(idx) == [kind |-> "index", name |-> ToString(idx)]

\* the leaves of a value, each with the path of object keys and array indices to it
RECURSIVE LeavesOf(_, _)
LeavesOf(value, path) ==
  IF value.t = "object"
  THEN UNION { LeavesOf(value.v[k].value, Append(path, KeySegment(value.v[k].key))) :
                 k \in DOMAIN value.v }
  ELSE IF value.t = "array"
  THEN UNION { LeavesOf(value.v[k], Append(path, IndexSegment(k - 1))) : k \in DOMAIN value.v }
  ELSE { [path |-> path, leaf |-> value] }

StringLeaves(value) == { l \in LeavesOf(value, <<>>) : l.leaf.t = "string" }

\* a.b[2]: keys dotted, indices bracketed
RECURSIVE BracketPath(_)
BracketPath(path) ==
  IF path = <<>> THEN ""
  ELSE LET front == BracketPath(SubSeq(path, 1, Len(path) - 1))
           last == path[Len(path)]
       IN IF last.kind = "index" THEN front \o "[" \o last.name \o "]"
          ELSE IF front = "" THEN last.name
          ELSE front \o "." \o last.name

\* a.b.2: keys and indices alike dotted
RECURSIVE DottedPath(_)
DottedPath(path) ==
  IF path = <<>> THEN ""
  ELSE LET front == DottedPath(SubSeq(path, 1, Len(path) - 1))
       IN IF front = "" THEN path[Len(path)].name ELSE front \o "." \o path[Len(path)].name

C10_DistinctKeyPaths ==
  pc = "flattened" =>
    /\ \A l, m \in StringLeaves(doc) : l # m => DottedPath(l.path) # DottedPath(m.path)
    /\ Len(flat) = Cardinality(StringLeaves(doc))

-----------------------------------------------------------------------------
(* getBaseName *)

PathSeparators == { "/", "\\" }

NameSeparators == { ".", "_", "-" }

\* pathOrName.split(/[\\/]/), from position i on
RECURSIVE SplitPath(_, _)
SplitPath(s, i) ==
  LET j == FirstFrom(s, i, LAMBDA k : s[k] \in PathSeparators)
  IN IF j = 0 THEN << SubSeq(s, i, Len(s)) >>
     ELSE << SubSeq(s, i, j - 1) >> \o SplitPath(s, j + 1)

\* /^([a-z]{2})(?:[-_][A-Za-z]{2})?$/.test(s)
isLangSeg(s) ==
  /\ Len(s) \in { 2, 5 }
  /\ s[1] \in Range(LowerCase) /\ s[2] \in Range(LowerCase)
  /\ Len(s) = 5 => s[3] \in { "-", "_" } /\ s[4] \in Letters /\ s[5] \in Letters

\* the length of the match of /\.(json|js)$/i in s, 0 when none
ExtensionLen(s) ==
  LET lower == [k \in DOMAIN s |-> ToLower(s[k])]
  IN IF EndsWith(lower, << ".", "j", "s", "o", "n" >>) THEN 5
     ELSE IF EndsWith(lower, << ".", "j", "s" >>) THEN 3
     ELSE 0

\* the length of the match of /^([a-z]{2})(?:[-_][A-Za-z]{2})?[._-]+/i in s, 0 when
\* none: the region is taken when separators follow it, else given back
LeadingCodeLen(s) ==
  IF ~(Len(s) >= 2 /\ s[1] \in Letters /\ s[2] \in Letters) THEN 0
  ELSE IF /\ Len(s) >= 5 /\ s[3] \in { "-", "_" } /\ s[4] \in Letters /\ s[5] \in Letters
          /\ RunLen(s, 6, NameSeparators) > 0
  THEN 5 + RunLen(s, 6, NameSeparators)
  ELSE IF RunLen(s, 3, NameSeparators) > 0 THEN 2 + RunLen(s, 3, NameSeparators)
  ELSE 0

\* ([a-z]{2})(?:[-_][A-Za-z]{2})?$ with the i flag matches s from position j + 1
CodeToEnd(s, j) ==
  LET rest == SubSeq(s, j + 1, Len(s))
  IN /\ Len(rest) \in { 2, 5 }
     /\ rest[1] \in Letters /\ rest[2] \in Letters
     /\ Len(rest) = 5 => rest[3] \in { "-", "_" } /\ rest[4] \in Letters /\ rest[5] \in Letters

\* where /[._-]+([a-z]{2})(?:[-_][A-Za-z]{2})?$/i matches in s, 0 when nowhere
TrailingCodeStart(s) ==
  FirstFrom(s, 1, LAMBDA i :
    \E j \in i..Len(s) : (\A k \in i..j : s[k] \in NameSeparators) /\ CodeToEnd(s, j))

\* parts.filter((seg) => !isLangSeg(seg)), or parts when that leaves nothing
KeptParts(parts) ==
  IF SelectSeq(parts, LAMBDA seg : ~isLangSeg(seg)) # <<>>
  THEN SelectSeq(parts, LAMBDA seg : ~isLangSeg(seg))
  ELSE parts

\* kept.slice(-1)[0] || ''
LastOf(kept) == IF kept # <<>> THEN kept[Len(kept)] ELSE <<>>

\* last.replace(/\.(json|js)$/i, '')
StripExtension(s) == SubSeq(s, 1, Len(s) - ExtensionLen(s))

\* base.replace(/^([a-z]{2})(?:[-_][A-Za-z]{2})?[._-]+/i, '')
StripLeadingCode(s) == SubSeq(s, LeadingCodeLen(s) + 1, Len(s))

\* base.replace(/[._-]+([a-z]{2})(?:[-_][A-Za-z]{2})?$/i, '')
StripTrailingCode(s) ==
  IF TrailingCodeStart(s) = 0 THEN s ELSE SubSeq(s, 1, TrailingCodeStart(s) - 1)

getBaseName(pathOrName) ==
  StripTrailingCode(StripLeadingCode(StripExtension(LastOf(KeptParts(
    SelectSeq(SplitPath(pathOrName, 1), LAMBDA seg : seg # <<>>))))))

-----------------------------------------------------------------------------
(* parseJsonFiles.  A JsonFile is [name, path, content], an absent path the  *)
(* empty text; the texts of a content are sequences of characters.  What     *)
(* targetFlat[key] gives is a value [t, v] like a JSON value: a string, a    *)
(* function of Object.prototype, or undefined.                               *)

JsonFile(name, path, content) == [name |-> name, path |-> path, content |-> content]

\* file.path || file.name
PathOrName(file) == IF file.path # <<>> THEN file.path ELSE file.name

\* obj.hasOwnProperty(key) throws a TypeError somewhere in flattenJSON(value): an
\* object holds a member named hasOwnProperty, which is no function in JSON
RECURSIVE FlattenThrows(_)
FlattenThrows(value) ==
  IF value.t = "object"
  THEN \/ \E k \in DOMAIN value.v : value.v[k].key = "hasOwnProperty"
       \/ \E k \in DOMAIN value.v : FlattenThrows(value.v[k].value)
  ELSE IF value.t = "array" THEN \E k \in DOMAIN value.v : FlattenThrows(value.v[k])
  ELSE FALSE

\* items[key] of the object flattenJSON returned
GetItem(items, key) ==
  IF \E k \in DOMAIN items : items[k].key = key
  THEN Str(items[CHOOSE k \in DOMAIN items : items[k].key = key].value)
  ELSE IF key \in ObjectPrototypeNames THEN [t |-> "function", v |-> << key >>]
  ELSE [t |-> "undefined", v |-> <<>>]

\* the value converts to true
Truthy(value) == value.t = "function" \/ (value.t = "string" /\ value.v # <<>>)

\* targetFlat[key] || ''
TargetTextOf(targetFlat, key) ==
  IF Truthy(GetItem(targetFlat, key)) THEN GetItem(targetFlat, key) ELSE Str(<<>>)

\* segmentIntoSentences(targetText): what is no string comes back as it is
TargetSegmentsOf(targetText) ==
  IF targetText.t = "string"
  THEN LET segs == segmentIntoSentences(targetText.v) IN [k \in DOMAIN segs |-> Str(segs[k])]
  ELSE << targetText >>

\* a segment index counted from zero
SegmentIndexFromZero(i) == i - 1

\* segmentIndex: i + 1 of the loop that counts from 0, i here counting from 1
SegmentIndexOf(i) == i

\* a TranslationUnit; segmentIndex and totalSegments are << >> when absent, else
\* hold the number
TranslationUnit(sourceText, targetText, keyPath, filePath, segmentIndex, totalSegments) ==
  [ sourceText |-> sourceText, targetText |-> targetText, keyPath |-> keyPath,
    filePath |-> filePath, segmentIndex |-> segmentIndex, totalSegments |-> totalSegments ]

\* the first target file with the base name, 0 when there is none
FindTarget(files, baseName) ==
  LET found == { k \in DOMAIN files : getBaseName(PathOrName(files[k])) = baseName }
  IN IF found = {} THEN 0 ELSE CHOOSE k \in found : \A j \in found : k <= j

\* targetText && sourceSegments.length === targetSegments.length && sourceSegments.length > 1
CountsMatch(targetText, sourceSegments, targetSegments) ==
  Truthy(targetText) /\ Len(sourceSegments) = Len(targetSegments) /\ Len(sourceSegments) > 1

\* targetText && sourceSegments.length !== targetSegments.length && sourceSegments.length > 1
CountsDiffer(targetText, sourceSegments, targetSegments) ==
  Truthy(targetText) /\ Len(sourceSegments) # Len(targetSegments) /\ Len(sourceSegments) > 1

\* the units one entry [key, sourceText] of sourceFlat pushes
EntryUnits(key, sourceText, targetText, sourceFile, segmentation, sourceSegments, targetSegments) ==
  IF segmentation /\ Len(sourceText) > 0
       /\ CountsMatch(targetText, sourceSegments, targetSegments)
  THEN [ i \in 1..Len(sourceSegments) |->
           TranslationUnit(sourceSegments[i], targetSegments[i], key, sourceFile.name,
                           << SegmentIndexOf(i) >>, << Len(sourceSegments) >>) ]
  ELSE << TranslationUnit(sourceText, targetText, key, sourceFile.name, <<>>, <<>>) >>

\* what one entry pushes on missingKeys
EntryMissingKeys(key, targetText, targetFile) ==
  IF ~Truthy(targetText)
  THEN << "Missing target for key \"" \o key \o "\" in " \o Join(targetFile.name) >>
  ELSE <<>>

\* what one entry writes with console.warn
EntryWarnings(key, sourceText, targetText, sourceFile, segmentation, sourceSegments, targetSegments) ==
  IF /\ segmentation /\ Len(sourceText) > 0
     /\ ~CountsMatch(targetText, sourceSegments, targetSegments)
     /\ CountsDiffer(targetText, sourceSegments, targetSegments)
  THEN << "Segmentation mismatch for key \"" \o key \o "\" in " \o Join(sourceFile.name)
            \o " (source=" \o ToString(Len(sourceSegments)) \o ", target="
            \o ToString(Len(targetSegments)) \o "). Fallback to unsegmented." >>
  ELSE <<>>

\* targetText ? segmentIntoSentences(targetText) : []
TargetSegmentsOrNone(targetText) ==
  IF Truthy(targetText) THEN TargetSegmentsOf(targetText) ELSE <<>>

\* the callback of Object.entries(sourceFlat).forEach for one entry: what it pushes
\* on translationUnits and on missingKeys, and what it writes with console.warn
EntryWith(key, sourceText, targetText, sourceFile, targetFile, segmentation, sourceSegments, targetSegments) ==
  [ units |-> EntryUnits(key, sourceText, targetText, sourceFile, segmentation,
                         sourceSegments, targetSegments),
    missingKeys |-> EntryMissingKeys(key, targetText, targetFile),
    warnings |-> EntryWarnings(key, sourceText, targetText, sourceFile, segmentation,
                               sourceSegments, targetSegments) ]

Entry(key, sourceText, targetText, sourceFile, targetFile, segmentation) ==
  EntryWith(key, sourceText, targetText, sourceFile, targetFile, segmentation,
            segmentIntoSentences(sourceText), TargetSegmentsOrNone(targetText))

\* Object.entries(sourceFlat).forEach(...): what each entry gives, in their order
Entries(sourceFlat, targetFlat, sourceFile, targetFile, segmentation) ==
  [ k \in DOMAIN sourceFlat |->
      Entry(sourceFlat[k].key, sourceFlat[k].value, TargetTextOf(targetFlat, sourceFlat[k].key),
            sourceFile, targetFile, segmentation) ]

\* the index in targetFiles of targetFiles.find(...) for a source file, 0 when none
TargetIndex(files, sourceFile) == FindTarget(files, getBaseName(PathOrName(sourceFile)))

\* ---- the files parseJsonFiles is called with ----

MaxFiles == 2

TextAB == << "A", ".", " ", "B" >>

TextCD == << "C", ".", " ", "D" >>

TextX == << "X" >>

TextY == << "Y" >>

\* A: 1. X
ColonListA == << "A", ":", " ", "1", ".", " ", "X" >>

\* Q: 1. Y
ColonListQ == << "Q", ":", " ", "1", ".", " ", "Y" >>

\* { "q": text }
OneKeyDoc(t) == Obj(<< Member("q", Str(t)) >>)

HomeColonSource ==
  JsonFile(<< "e", "n", "-", "h", "o", "m", "e", ".", "j", "s", "o", "n" >>, <<>>,
           OneKeyDoc(ColonListA))

HomeColonTarget ==
  JsonFile(<< "h", "o", "m", "e", ".", "f", "r", ".", "j", "s", "o", "n" >>, <<>>,
           OneKeyDoc(ColonListQ))

SourceFileSet ==
  { JsonFile(<< "h", "o", "m", "e", ".", "j", "s", "o", "n" >>,
             << "e", "n", "/", "h", "o", "m", "e", ".", "j", "s", "o", "n" >>,
             OneKeyDoc(TextAB)),
    JsonFile(<< "h", "o", "m", "e", "_", "e", "n", ".", "j", "s", "o", "n" >>, <<>>,
             OneKeyDoc(TextX)),
    HomeColonSource,
    JsonFile(<< "m", "e", "n", "u", "_", "e", "n", ".", "j", "s", "o", "n" >>, <<>>,
             Obj(<< Member("q", Str(TextAB)), Member("constructor", Str(TextX)),
                    Member("s", Str(<<>>)) >>)),
    JsonFile(<< "a", "b", "o", "u", "t", "_", "e", "n", ".", "j", "s", "o", "n" >>, <<>>,
             OneKeyDoc(TextX)),
    JsonFile(<< "h", "o", "m", "e", ".", "j", "s" >>,
             << "e", "n", "/", "h", "o", "m", "e", ".", "j", "s" >>,
             Obj(<< Member("q", Str(TextAB)),
                    Member("r", Obj(<< Member("hasOwnProperty", Str(TextX)) >>)) >>)) }

TargetFileSet ==
  { JsonFile(<< "h", "o", "m", "e", ".", "j", "s", "o", "n" >>,
             << "f", "r", "/", "h", "o", "m", "e", ".", "j", "s", "o", "n" >>,
             OneKeyDoc(TextCD)),
    JsonFile(<< "h", "o", "m", "e", "_", "f", "r", ".", "j", "s", "o", "n" >>, <<>>,
             OneKeyDoc(TextY)),
    HomeColonTarget,
    JsonFile(<< "f", "r", "-", "h", "o", "m", "e", ".", "j", "s", "o", "n" >>, <<>>, Obj(<<>>)),
    JsonFile(<< "m", "e", "n", "u", "_", "f", "r", ".", "j", "s", "o", "n" >>, <<>>,
             Obj(<< Member("q", Str(<<>>)), Member("s", Str(TextCD)) >>)) }

\* the lists of up to n different files of a set
FileLists(files, n) ==
  { q \in UNION { [1..k -> files] : k \in 0..n } : \A i, j \in DOMAIN q : q[i] = q[j] => i = j }

InitAlign ==
  /\ pc = "align"
  /\ sourceFiles \in FileLists(SourceFileSet, MaxFiles)
  /\ targetFiles \in FileLists(TargetFileSet, MaxFiles)
  /\ enableSegmentation \in BOOLEAN
  /\ fileIndex = 1
  /\ translationUnits = <<>>
  /\ errors = <<>>
  /\ missingKeys = <<>>
  /\ warnings = <<>>
  /\ text = <<>>
  /\ DecodeIdle
  /\ SegmentIdle
  /\ InlineIdle
  /\ FlattenIdle
  /\ IdIdle
  /\ LangIdle
  /\ SerializeIdle
  /\ UploadIdle

\* sourceFiles.length === 0: one error, and the empty result
AlignNoSourceFiles ==
  /\ pc = "align"
  /\ Len(sourceFiles) = 0
  /\ errors' = Append(errors, "No source files provided")
  /\ pc' = "aligned"
  /\ UNCHANGED <<sourceFiles, targetFiles, enableSegmentation, fileIndex, translationUnits,
                 missingKeys, warnings, notAlign>>

\* forEach stops at the first file it skips
StopsAfterSkip(index, count) == count + 1

\* return from the callback, or the end of its catch: forEach goes on with the next file
IndexAfterSkip(index, count) == index + 1

\* one source file of forEach: no target file has its base name
AlignNoTargetFile ==
  /\ pc = "align"
  /\ fileIndex <= Len(sourceFiles)
  /\ TargetIndex(targetFiles, sourceFiles[fileIndex]) = 0
  /\ errors' = Append(errors, "No corresponding target file found for "
                                \o Join(sourceFiles[fileIndex].name))
  /\ fileIndex' = IndexAfterSkip(fileIndex, Len(sourceFiles))
  /\ UNCHANGED <<sourceFiles, targetFiles, enableSegmentation, translationUnits,
                 missingKeys, warnings, pc, notAlign>>

\* one source file of forEach: flattenJSON throws, and catch records it
AlignCatch ==
  /\ pc = "align"
  /\ fileIndex <= Len(sourceFiles)
  /\ \E found \in { TargetIndex(targetFiles, sourceFiles[fileIndex]) } :
       /\ found # 0
       /\ \/ FlattenThrows(sourceFiles[fileIndex].content)
          \/ FlattenThrows(targetFiles[found].content)
  /\ errors' = Append(errors, "Error processing " \o Join(sourceFiles[fileIndex].name)
                                \o ": TypeError: obj.hasOwnProperty is not a function")
  /\ fileIndex' = IndexAfterSkip(fileIndex, Len(sourceFiles))
  /\ UNCHANGED <<sourceFiles, targetFiles, enableSegmentation, translationUnits,
                 missingKeys, warnings, pc, notAlign>>

\* what the entries of one source file push and write
AlignPush(results) ==
  /\ translationUnits' =
       translationUnits \o Flatten([k \in DOMAIN results |-> results[k].units])
  /\ missingKeys' = missingKeys \o Flatten([k \in DOMAIN results |-> results[k].missingKeys])
  /\ warnings' = warnings \o Flatten([k \in DOMAIN results |-> results[k].warnings])

\* one source file of forEach: its entries against the target file found
AlignEntries ==
  /\ pc = "align"
  /\ fileIndex <= Len(sourceFiles)
  /\ \E found \in { TargetIndex(targetFiles, sourceFiles[fileIndex]) } :
       /\ found # 0
       /\ ~FlattenThrows(sourceFiles[fileIndex].content)
       /\ ~FlattenThrows(targetFiles[found].content)
       /\ AlignPush(Entries(flattenJSON(sourceFiles[fileIndex].content, ""),
                            flattenJSON(targetFiles[found].content, ""),
                            sourceFiles[fileIndex], targetFiles[found], enableSegmentation))
  /\ fileIndex' = fileIndex + 1
  /\ UNCHANGED <<sourceFiles, targetFiles, enableSegmentation, errors, pc, notAlign>>

\* return { translationUnits, errors, missingKeys }
AlignReturn ==
  /\ pc = "align"
  /\ Len(sourceFiles) > 0
  /\ fileIndex > Len(sourceFiles)
  /\ pc' = "aligned"
  /\ UNCHANGED <<alignVars, notAlign>>

NextAlign ==
  \/ AlignNoSourceFiles
  \/ AlignNoTargetFile
  \/ AlignCatch
  \/ AlignEntries
  \/ AlignReturn

SpecAlign == InitAlign /\ [][NextAlign]_vars

-----------------------------------------------------------------------------
(* Claims about parseJsonFiles.  The source files of a run have different    *)
(* names, so filePath and keyPath tell whose record a record is.             *)

\* forEach has matched the k-th source file with a target file and flattened both
Aligns(k) ==
  /\ k < fileIndex
  /\ TargetIndex(targetFiles, sourceFiles[k]) # 0
  /\ ~FlattenThrows(sourceFiles[k].content)
  /\ ~FlattenThrows(targetFiles[TargetIndex(targetFiles, sourceFiles[k])].content)

SourceFlatOf(k) == flattenJSON(sourceFiles[k].content, "")

TargetFlatOf(k) == flattenJSON(targetFiles[TargetIndex(targetFiles, sourceFiles[k])].content, "")

\* the texts the flattening holds under a key: one, or none
OwnTexts(items, key) == { items[j].value : j \in { i \in DOMAIN items : items[i].key = key } }

\* where in translationUnits the records of a key of a source file are
RecordsOf(file, key) ==
  { p \in DOMAIN translationUnits :
      translationUnits[p].filePath = file.name /\ translationUnits[p].keyPath = key }

\* one record, without segmentIndex and totalSegments
Unsegmented(P) ==
  /\ Cardinality(P) = 1
  /\ \A p \in P : translationUnits[p].segmentIndex = <<>> /\ translationUnits[p].totalSegments = <<>>

\* n > 1 consecutive records, the i-th with segmentIndex i, totalSegments n and the
\* i-th segment of either side
SegmentedAs(P, sourceSegments, targetSegments) ==
  /\ Cardinality(P) > 1
  /\ Len(sourceSegments) = Cardinality(P)
  /\ Len(targetSegments) = Cardinality(P)
  /\ \E lo \in P :
       /\ P = lo..(lo + Cardinality(P) - 1)
       /\ \A i \in 1..Cardinality(P) :
            /\ translationUnits[lo + i - 1].segmentIndex = << i >>
            /\ translationUnits[lo + i - 1].totalSegments = << Cardinality(P) >>
            /\ translationUnits[lo + i - 1].sourceText = sourceSegments[i]
            /\ translationUnits[lo + i - 1].targetText = Str(targetSegments[i])

\* C11: with segmentation enabled, every KeyPath of the source flattening has either
\* exactly one record, without segmentIndex and totalSegments, or n > 1 consecutive
\* records numbered 1..n with totalSegments n that pair the i-th source segment with
\* the i-th target segment, and the latter only when the source value and the target
\* value both segment into n units
C11_SegmentedRecords ==
  pc = "aligned" /\ enableSegmentation =>
    \A k \in DOMAIN sourceFiles :
      Aligns(k) =>
        \A e \in Range(SourceFlatOf(k)) :
          \/ Unsegmented(RecordsOf(sourceFiles[k], e.key))
          \/ \E targetValue \in OwnTexts(TargetFlatOf(k), e.key) :
               SegmentedAs(RecordsOf(sourceFiles[k], e.key),
                           segmentIntoSentences(e.value), segmentIntoSentences(targetValue))

\* a run with segmentation enabled that paired the segments of one key and fell back
\* to one record for a key whose segment counts differ
C11_Witness ==
  /\ pc = "aligned" /\ enableSegmentation
  /\ \E p \in DOMAIN translationUnits : translationUnits[p].segmentIndex = << 2 >>
  /\ \E k \in DOMAIN sourceFiles :
       /\ Aligns(k)
       /\ \E e \in Range(SourceFlatOf(k)) : \E targetValue \in OwnTexts(TargetFlatOf(k), e.key) :
            /\ Len(segmentIntoSentences(e.value)) > 1
            /\ Len(segmentIntoSentences(targetValue)) # Len(segmentIntoSentences(e.value))
            /\ Unsegmented(RecordsOf(sourceFiles[k], e.key))

\* C12 as claimed: align with segmentation enabled on source { "q": "A: 1. X" } and
\* target { "q": "Q: 1. Y" } gives exactly two records for q, with segmentIndex 1
\* and 2 and totalSegments 2
C12_ColonListTwoRecords ==
  /\ pc = "aligned" /\ enableSegmentation
  /\ sourceFiles = << HomeColonSource >> /\ targetFiles = << HomeColonTarget >>
  => /\ Len(translationUnits) = 2
     /\ \A i \in DOMAIN translationUnits :
          /\ translationUnits[i].keyPath = "q"
          /\ translationUnits[i].segmentIndex = << i >>
          /\ translationUnits[i].totalSegments = << 2 >>

\* the diagnostic of a key missing in the target file matched with the k-th source file
MissingKeyDiagnostic(k, key) ==
  "Missing target for key \"" \o key \o "\" in "
    \o Join(targetFiles[TargetIndex(targetFiles, sourceFiles[k])].name)

\* C13 as claimed: every KeyPath of the source flattening has at least one record; a
\* missing-key diagnostic is recorded for it exactly when the KeyPath is absent from
\* the target flattening, and its record then has the empty target text
C13_MissingKeys ==
  pc = "aligned" =>
    \A k \in DOMAIN sourceFiles :
      Aligns(k) =>
        \A e \in Range(SourceFlatOf(k)) :
          /\ RecordsOf(sourceFiles[k], e.key) # {}
          /\ MissingKeyDiagnostic(k, e.key) \in Range(missingKeys)
               <=> OwnTexts(TargetFlatOf(k), e.key) = {}
          /\ OwnTexts(TargetFlatOf(k), e.key) = {} =>
               \A p \in RecordsOf(sourceFiles[k], e.key) :
                 translationUnits[p].targetText = Str(<<>>)

\* the segmentation-mismatch diagnostic of a key of the k-th source file
MismatchDiagnostic(k, key, sourceCount, targetCount) ==
  "Segmentation mismatch for key \"" \o key \o "\" in " \o Join(sourceFiles[k].name)
    \o " (source=" \o ToString(sourceCount) \o ", target=" \o ToString(targetCount)
    \o "). Fallback to unsegmented."

\* C14 as claimed: with segmentation enabled, a KeyPath whose source value segments
\* into more than one unit and whose target value into another number of units has
\* exactly one unsegmented record, and the diagnostics align returns hold a
\* segmentation-mismatch diagnostic for it
C14_MismatchDiagnosed ==
  pc = "aligned" /\ enableSegmentation =>
    \A k \in DOMAIN sourceFiles :
      Aligns(k) =>
        \A e \in Range(SourceFlatOf(k)) : \A targetValue \in OwnTexts(TargetFlatOf(k), e.key) :
          /\ Len(segmentIntoSentences(e.value)) > 1
          /\ Len(segmentIntoSentences(targetValue)) # Len(segmentIntoSentences(e.value))
          => /\ Unsegmented(RecordsOf(sourceFiles[k], e.key))
             /\ MismatchDiagnostic(k, e.key, Len(segmentIntoSentences(e.value)),
                                   Len(segmentIntoSentences(targetValue)))
                  \in Range(errors) \cup Range(missingKeys)

\* forEach skipped the k-th source file: no target file, or an error caught
Skipped(k) == k < fileIndex /\ ~Aligns(k)

\* the one diagnostic of a skipped source file
SkipDiagnostic(k) ==
  IF TargetIndex(targetFiles, sourceFiles[k]) = 0
  THEN "No corresponding target file found for " \o Join(sourceFiles[k].name)
  ELSE "Error processing " \o Join(sourceFiles[k].name)
         \o ": TypeError: obj.hasOwnProperty is not a function"

\* C20: a source document without a target document of its BaseIdentifier, or whose
\* processing raises an error, gives exactly one diagnostic and no record, every
\* other source document has the records of its KeyPaths, and a call without source
\* documents returns one diagnostic and no record
C20_SkippedDocuments ==
  pc = "aligned" =>
    /\ Len(sourceFiles) = 0 =>
         Len(errors) = 1 /\ missingKeys = <<>> /\ translationUnits = <<>>
    /\ Len(sourceFiles) > 0 =>
         /\ Len(errors) = Cardinality({ k \in DOMAIN sourceFiles : Skipped(k) })
         /\ \A k \in DOMAIN sourceFiles :
              Skipped(k) =>
                /\ Cardinality({ i \in DOMAIN errors : errors[i] = SkipDiagnostic(k) }) = 1
                /\ \A p \in DOMAIN translationUnits :
                     translationUnits[p].filePath # sourceFiles[k].name
         /\ (\A k \in DOMAIN sourceFiles : Skipped(k)) => missingKeys = <<>>
         /\ \A k \in DOMAIN sourceFiles :
              ~Skipped(k) =>
                \A e \in Range(SourceFlatOf(k)) : RecordsOf(sourceFiles[k], e.key) # {}

\* a source document was skipped, and the one after it was processed
C20_Witness ==
  /\ pc = "aligned"
  /\ \E j, k \in DOMAIN sourceFiles :
       /\ j < k /\ Skipped(j) /\ Aligns(k)
       /\ \E e \in Range(SourceFlatOf(k)) : RecordsOf(sourceFiles[k], e.key) # {}

-----------------------------------------------------------------------------
(* generateTUID.  Here the keyPath of a translation unit is a text like its  *)
(* sourceText, since the identifier is computed from its characters.         *)

\* the code points of the characters written "u<code point>" in the units below
NamedCodePoints == ("u233" :> 233) @@ ("u8217" :> 8217)

\* the code point of a character
CodePointOf(c) ==
  IF c \in Range(AsciiPrintable) THEN IndexIn(AsciiPrintable, c) + 31
  ELSE IF c = "\t" THEN 9
  ELSE IF c = "\n" THEN 10
  ELSE IF c = "\r" THEN 13
  ELSE NamedCodePoints[c]

\* the bytes TextEncoder gives for one code point
Utf8Bytes(code) ==
  IF code < 128 THEN << code >>
  ELSE IF code < 2048 THEN << 192 + (code \div 64), 128 + (code % 64) >>
  ELSE IF code < 65536
  THEN << 224 + (code \div 4096), 128 + ((code \div 64) % 64), 128 + (code % 64) >>
  ELSE << 240 + (code \div 262144), 128 + ((code \div 4096) % 64),
          128 + ((code \div 64) % 64), 128 + (code % 64) >>

\* new TextEncoder().encode(str)
TextEncode(str) == Flatten([k \in DOMAIN str |-> Utf8Bytes(CodePointOf(str[k]))])

Base64Alphabet == UpperCase \o LowerCase \o DigitChars \o << "+", "/" >>

\* the four characters for a group of n <= 3 bytes, absent bytes given as 0
Base64Group(b1, b2, b3, n) ==
  << Base64Alphabet[(b1 \div 4) + 1],
     Base64Alphabet[((b1 % 4) * 16) + (b2 \div 16) + 1],
     IF n >= 2 THEN Base64Alphabet[((b2 % 16) * 4) + (b3 \div 64) + 1] ELSE "=",
     IF n >= 3 THEN Base64Alphabet[(b3 % 64) + 1] ELSE "=" >>

\* btoa(binary) for the bytes of binary
RECURSIVE btoa(_)
btoa(bytes) ==
  IF bytes = <<>> THEN <<>>
  ELSE Base64Group(bytes[1],
                   IF Len(bytes) >= 2 THEN bytes[2] ELSE 0,
                   IF Len(bytes) >= 3 THEN bytes[3] ELSE 0,
                   Len(bytes))
         \o btoa(SubSeq(bytes, 4, Len(bytes)))

utf8ToBase64(str) == btoa(TextEncode(str))

\* tu.segmentIndex ? `${tu.keyPath}_${tu.segmentIndex}_${tu.sourceText}`
\*                 : `${tu.keyPath}_${tu.sourceText}`
Combined(tu) ==
  IF tu.segmentIndex # <<>> /\ tu.segmentIndex[1] # 0
  THEN tu.keyPath \o << "_" >> \o DigitsOf(tu.segmentIndex[1]) \o << "_" >> \o tu.sourceText
  ELSE tu.keyPath \o << "_" >> \o tu.sourceText

TuidLength == 16

\* base64.replace(/[+=\/]/g, '').substring(0, 16)
Shorten(base64) ==
  SubSeq(SelectSeq(base64, LAMBDA c : c \notin { "+", "=", "/" }), 1,
         IF Len(SelectSeq(base64, LAMBDA c : c \notin { "+", "=", "/" })) < TuidLength
         THEN Len(SelectSeq(base64, LAMBDA c : c \notin { "+", "=", "/" }))
         ELSE TuidLength)

generateTUID(tu) == Shorten(utf8ToBase64(Combined(tu)))

\* ---- the translation units generateTUID is called with ----

IdKeyPaths ==
  { << "a" >>, << "a", "_", "b" >>, << "a", "_", "1" >>,
    << "s", "e", "t", "t", "i", "n", "g", "s", ".", "p", "r", "o", "f", "i", "l", "e", ".", "n", "a", "m", "e" >>,
    << "s", "e", "t", "t", "i", "n", "g", "s", ".", "p", "r", "o", "f", "i", "l", "e", ".", "e", "m", "a", "i", "l" >> }

IdSourceTexts ==
  { << "x" >>, << "b", "_", "x" >>, << "1", "_", "x" >>, << "S", "a", "v", "e" >>, << "C", "a", "n", "c", "e", "l" >>,
    << "C", "a", "f", "u233" >> }

\* the units of one document: unsegmented, or the first or second segment of two
IdUnits ==
  { TranslationUnit(s, Str(TextY), k, << "e", "n", ".", "j", "s", "o", "n" >>, i[1], i[2]) :
      s \in IdSourceTexts, k \in IdKeyPaths,
      i \in { << <<>>, <<>> >>, << << 1 >>, << 2 >> >>, << << 2 >>, << 2 >> >> } }

InitId ==
  /\ pc = "tuid"
  /\ unitPair \in IdUnits \X IdUnits
  /\ tuids = <<>>
  /\ text = <<>>
  /\ DecodeIdle
  /\ SegmentIdle
  /\ InlineIdle
  /\ FlattenIdle
  /\ AlignIdle
  /\ LangIdle
  /\ SerializeIdle
  /\ UploadIdle

\* generateTUID(tu) for either unit
GenerateTuids ==
  /\ pc = "tuid"
  /\ tuids' = << generateTUID(unitPair[1]), generateTUID(unitPair[2]) >>
  /\ pc' = "tuids"
  /\ UNCHANGED <<unitPair, notId>>

NextId == GenerateTuids

SpecId == InitId /\ [][NextId]_vars

-----------------------------------------------------------------------------
(* Claims about generateTUID *)

\* C15 as claimed: two units that differ in keyPath, segmentIndex or sourceText get
\* different identifiers
C15_DistinctTuids ==
  /\ pc = "tuids"
  /\ \/ unitPair[1].keyPath # unitPair[2].keyPath
     \/ unitPair[1].segmentIndex # unitPair[2].segmentIndex
     \/ unitPair[1].sourceText # unitPair[2].sourceText
  => tuids[1] # tuids[2]

-----------------------------------------------------------------------------
(* getBaseName, applied to a path or name and then to what it returned *)

MaxNameTokens == 3

NameTokens ==
  { << "e", "n" >>, << "f", "r" >>, << "G", "B" >>, << "h", "o", "m", "e" >>,
    << "." >>, << "_" >>, << "-" >>, << "/" >>,
    << ".", "j", "s", "o", "n" >>, << ".", "j", "s" >>, << "x" >> }

InitBaseName ==
  /\ pc = "basename"
  /\ baseArg \in TokenTexts(NameTokens, MaxNameTokens)
  /\ baseNames = <<>>
  /\ text = <<>>
  /\ DecodeIdle
  /\ SegmentIdle
  /\ InlineIdle
  /\ FlattenIdle
  /\ AlignIdle
  /\ IdIdle
  /\ DetectIdle
  /\ PairsIdle
  /\ SerializeIdle
  /\ UploadIdle

\* getBaseName(pathOrName)
BaseNameCall ==
  /\ pc = "basename"
  /\ baseNames = <<>>
  /\ baseNames' = << getBaseName(baseArg) >>
  /\ UNCHANGED <<pc, baseArg, detectVars, pairsVars, notLang>>

\* getBaseName(what it returned)
BaseNameAgain ==
  /\ pc = "basename"
  /\ Len(baseNames) = 1
  /\ baseNames' = Append(baseNames, getBaseName(baseNames[1]))
  /\ pc' = "basenamed"
  /\ UNCHANGED <<baseArg, detectVars, pairsVars, notLang>>

NextBaseName == BaseNameCall \/ BaseNameAgain

SpecBaseName == InitBaseName /\ [][NextBaseName]_vars

\* C18 as claimed: getBaseName(getBaseName(x)) = getBaseName(x) for every path or name x
C18_BaseNameIdempotent == pc = "basenamed" => baseNames[2] = baseNames[1]

-----------------------------------------------------------------------------
(* detectLanguageFromPath, detectLanguageFromFilename, detectLanguageFromJson *)
(* and detectLanguageForFile.  A detection that found nothing is NoLanguage. *)

ToUpper(c) == IF c \in Range(LowerCase) THEN UpperCase[IndexIn(LowerCase, c)] ELSE c

toLowerCase(s) == [k \in DOMAIN s |-> ToLower(s[k])]

toUpperCase(s) == [k \in DOMAIN s |-> ToUpper(s[k])]

\* region ? `${lang}-${region.toUpperCase()}` : lang, lang in lower case
CodeOf(lang, region) ==
  IF region # <<>> THEN toLowerCase(lang) \o << "-" >> \o toUpperCase(region)
  ELSE toLowerCase(lang)

AllLetters(s) == \A k \in DOMAIN s : s[k] \in Letters

\* the code of what matches ([a-z]{2})(?:[-_]?([a-z]{2}))? with the i flag, all
\* of s: NoLanguage when s does not match
CodeMatch(s) ==
  IF Len(s) = 2 /\ AllLetters(s) THEN CodeOf(s, <<>>)
  ELSE IF Len(s) = 4 /\ AllLetters(s) THEN CodeOf(SubSeq(s, 1, 2), SubSeq(s, 3, 4))
  ELSE IF Len(s) = 5 /\ AllLetters(SubSeq(s, 1, 2)) /\ s[3] \in { "-", "_" }
          /\ AllLetters(SubSeq(s, 4, 5))
  THEN CodeOf(SubSeq(s, 1, 2), SubSeq(s, 4, 5))
  ELSE NoLanguage

\* /^[a-z]{2}$/.test(code)
IsBare(code) == Len(code) = 2 /\ \A k \in 1..2 : code[k] \in Range(LowerCase)

\* /^[a-z]{2}-[A-Z]{2}$/.test(code)
IsRegional(code) ==
  /\ Len(code) = 5
  /\ code[1] \in Range(LowerCase) /\ code[2] \in Range(LowerCase)
  /\ code[3] = "-"
  /\ code[4] \in Range(UpperCase) /\ code[5] \in Range(UpperCase)

\* for (const seg of segments) from the k-th segment on, best so far
RECURSIVE PathBest(_, _, _)
PathBest(segs, best, k) ==
  IF k > Len(segs) THEN best
  ELSE IF /\ CodeMatch(segs[k]) # NoLanguage
          /\ best = NoLanguage \/ (IsBare(best) /\ IsRegional(CodeMatch(segs[k])))
  THEN PathBest(segs, CodeMatch(segs[k]), k + 1)
  ELSE PathBest(segs, best, k + 1)

detectLanguageFromPath(path) == PathBest(SplitPath(path, 1), NoLanguage, 1)

\* the code suffixRe finds in front of the extension, the leftmost match first
SuffixCode(body) ==
  IF \E n \in { 5, 4, 2 } :
       /\ Len(body) > n /\ body[Len(body) - n] \in NameSeparators
       /\ CodeMatch(SubSeq(body, Len(body) - n + 1, Len(body))) # NoLanguage
  THEN CodeMatch(SubSeq(body, 1 + Len(body)
         - (CHOOSE n \in { 5, 4, 2 } :
              /\ Len(body) > n /\ body[Len(body) - n] \in NameSeparators
              /\ CodeMatch(SubSeq(body, Len(body) - n + 1, Len(body))) # NoLanguage
              /\ \A o \in { 5, 4, 2 } :
                   (/\ Len(body) > o /\ body[Len(body) - o] \in NameSeparators
                    /\ CodeMatch(SubSeq(body, Len(body) - o + 1, Len(body))) # NoLanguage)
                   => o <= n), Len(body)))
  ELSE NoLanguage

\* the code prefixRe finds at the start: the region taken when a separator follows it
PrefixCode(s) ==
  IF \E n \in { 5, 4, 2 } :
       Len(s) > n /\ s[n + 1] \in NameSeparators /\ CodeMatch(SubSeq(s, 1, n)) # NoLanguage
  THEN CodeMatch(SubSeq(s, 1,
         CHOOSE n \in { 5, 4, 2 } :
           /\ Len(s) > n /\ s[n + 1] \in NameSeparators /\ CodeMatch(SubSeq(s, 1, n)) # NoLanguage
           /\ \A o \in { 5, 4, 2 } :
                (Len(s) > o /\ s[o + 1] \in NameSeparators
                   /\ CodeMatch(SubSeq(s, 1, o)) # NoLanguage) => o <= n))
  ELSE NoLanguage

detectLanguageFromFilename(filename) ==
  IF ExtensionLen(filename) # 0 /\ SuffixCode(StripExtension(filename)) # NoLanguage
  THEN SuffixCode(StripExtension(filename))
  ELSE PrefixCode(filename)

\* content[name] for a name that Object.prototype does not have
PropertyOf(content, name) ==
  IF content.t = "object" /\ \E k \in DOMAIN content.v : content.v[k].key = name
  THEN content.v[CHOOSE k \in DOMAIN content.v : content.v[k].key = name].value
  ELSE [t |-> "undefined", v |-> <<>>]

\* a JSON value converts to true
JsonTruthy(value) ==
  \/ value.t \in { "object", "array" }
  \/ value.t = "number" /\ value.v # "0"
  \/ value.t = "boolean" /\ value.v = "true"
  \/ value.t = "string" /\ value.v # <<>>

\* jsonContent.language && jsonContent.locale
HasLanguageAndLocale(content) ==
  JsonTruthy(PropertyOf(content, "language")) /\ JsonTruthy(PropertyOf(content, "locale"))

\* detectLanguageFromJson throws a TypeError: the content is null, or language or
\* locale is there and no string
DetectFromJsonThrows(content) ==
  \/ content.t = "null"
  \/ /\ HasLanguageAndLocale(content)
     /\ \/ PropertyOf(content, "language").t # "string"
        \/ PropertyOf(content, "locale").t # "string"

detectLanguageFromJson(content) ==
  IF HasLanguageAndLocale(content)
  THEN toLowerCase(PropertyOf(content, "language").v) \o << "-" >>
         \o toUpperCase(PropertyOf(content, "locale").v)
  ELSE NoLanguage

Candidate(lang, origin) == [lang |-> lang, origin |-> origin]

\* candidates, in the order they are pushed
Candidates(f) ==
  (IF f.path # <<>> /\ detectLanguageFromPath(f.path) # NoLanguage
   THEN << Candidate(detectLanguageFromPath(f.path), "path") >> ELSE <<>>)
  \o (IF detectLanguageFromFilename(f.name) # NoLanguage
      THEN << Candidate(detectLanguageFromFilename(f.name), "filename") >> ELSE <<>>)
  \o (IF detectLanguageFromJson(f.content) # NoLanguage
      THEN << Candidate(detectLanguageFromJson(f.content), "json") >> ELSE <<>>)

specificity(code) == IF IsRegional(code) THEN 2 ELSE IF IsBare(code) THEN 1 ELSE 0

\* the priorities with path last
PriorityReversed(origin) ==
  IF origin = "path" THEN 1 ELSE IF origin = "filename" THEN 2 ELSE 3

\* priority[origin]
Priority(origin) == IF origin = "path" THEN 3 ELSE IF origin = "filename" THEN 2 ELSE 1

\* for (const c of candidates) from the k-th candidate on
RECURSIVE BestFrom(_, _, _)
BestFrom(candidates, best, k) ==
  IF k > Len(candidates) THEN best
  ELSE IF best = NoDetection THEN BestFrom(candidates, candidates[k], k + 1)
  ELSE IF specificity(candidates[k].lang) > specificity(best.lang)
  THEN BestFrom(candidates, candidates[k], k + 1)
  ELSE IF /\ specificity(candidates[k].lang) = specificity(best.lang)
          /\ Priority(candidates[k].origin) > Priority(best.origin)
  THEN BestFrom(candidates, candidates[k], k + 1)
  ELSE BestFrom(candidates, best, k + 1)

detectLanguageForFile(f) == BestFrom(Candidates(f), NoDetection, 1)

------------------------------------------------------------------------------
(* detectLanguageForFile on one document *)

MaxDetectTokens == 3

DetectTokens ==
  { << "e", "n" >>, << "f", "r" >>, << "G", "B" >>, << "h", "o", "m", "e" >>, << "_" >>,
    << ".", "j", "s", "o", "n" >> }

\* home_fr.json
HomeFrName == << "h", "o", "m", "e", "_", "f", "r", ".", "j", "s", "o", "n" >>

\* en-GB/home.json
EnGbHomePath ==
  << "e", "n", "-", "G", "B", "/", "h", "o", "m", "e", ".", "j", "s", "o", "n" >>

\* en-GB_home.json
EnGbHomeName ==
  << "e", "n", "-", "G", "B", "_", "h", "o", "m", "e", ".", "j", "s", "o", "n" >>

\* fr.home.json
FrHomeName == << "f", "r", ".", "h", "o", "m", "e", ".", "j", "s", "o", "n" >>

\* es-home.json
EsHomeName == << "e", "s", "-", "h", "o", "m", "e", ".", "j", "s", "o", "n" >>

\* fr.strings.json
FrStringsName ==
  << "f", "r", ".", "s", "t", "r", "i", "n", "g", "s", ".", "j", "s", "o", "n" >>

PrefixMarkedNames == { EnGbHomeName, FrHomeName, EsHomeName, FrStringsName }

DetectPaths ==
  { <<>>, EnGbHomePath,
    << "e", "n", "/", "h", "o", "m", "e", ".", "j", "s", "o", "n" >>,
    << "f", "r", "/", "e", "n", "_", "g", "b", "/", "x" >>,
    << "e", "n", "-", "G", "B", "/", "f", "r", "-", "C", "A", "/", "x" >>,
    << "l", "o", "c", "a", "l", "e", "s", "/", "x", ".", "j", "s", "o", "n" >> }

\* the values of the language and locale members; the empty object stands for no member
DeclaredLanguages ==
  { Obj(<<>>), Str(<< "e", "n" >>), Str(<< "D", "E" >>), Str(<< "e", "n", "g" >>), Num }

DeclaredLocales == { Obj(<<>>), Str(<< "G", "B" >>), Str(<< "g", "b", "r" >>), Bool }

DeclaredMember(name, value) ==
  IF value = Obj(<<>>) THEN <<>> ELSE << Member(name, value) >>

DetectContents ==
  { Obj(DeclaredMember("language", l) \o DeclaredMember("locale", r)) :
      l \in DeclaredLanguages, r \in DeclaredLocales } \cup { Null }

InitDetect ==
  /\ pc = "detect"
  /\ \E name \in TokenTexts(DetectTokens, MaxDetectTokens) \cup { HomeFrName }
                   \cup PrefixMarkedNames,
        path \in DetectPaths, content \in DetectContents :
       detectFile = JsonFile(name, path, content)
  /\ detected = NoDetection
  /\ text = <<>>
  /\ DecodeIdle
  /\ SegmentIdle
  /\ InlineIdle
  /\ FlattenIdle
  /\ AlignIdle
  /\ IdIdle
  /\ BaseNameIdle
  /\ PairsIdle
  /\ SerializeIdle
  /\ UploadIdle

\* detectLanguageForFile(file) returns
DetectLanguage ==
  /\ pc = "detect"
  /\ ~DetectFromJsonThrows(detectFile.content)
  /\ detected' = detectLanguageForFile(detectFile)
  /\ pc' = "detected"
  /\ UNCHANGED <<detectFile, baseArg, baseNames, pairsVars, notLang>>

\* detectLanguageFromJson(file.content) throws a TypeError
DetectThrow ==
  /\ pc = "detect"
  /\ DetectFromJsonThrows(detectFile.content)
  /\ pc' = "threw"
  /\ UNCHANGED <<detectFile, detected, baseArg, baseNames, pairsVars, notLang>>

NextDetect == DetectLanguage \/ DetectThrow

SpecDetect == InitDetect /\ [][NextDetect]_vars

\* the detections of the document, each with the origin it came from
DetectionsOf(f) ==
  { d \in { Candidate(IF f.path = <<>> THEN NoLanguage ELSE detectLanguageFromPath(f.path),
                      "path"),
            Candidate(detectLanguageFromFilename(f.name), "filename"),
            Candidate(detectLanguageFromJson(f.content), "json") } :
      d.lang # NoLanguage }

\* region-qualified = 2, bare = 1, none = 0
Score(code) ==
  IF /\ Len(code) = 5 /\ code[3] = "-"
     /\ \A i \in { 1, 2 } : code[i] \in Range(LowerCase)
     /\ \A i \in { 4, 5 } : code[i] \in Range(UpperCase)
  THEN 2
  ELSE IF Len(code) = 2 /\ \A i \in { 1, 2 } : code[i] \in Range(LowerCase) THEN 1 ELSE 0

\* path before filename before metadata
OriginRank(origin) == CHOOSE i \in 1..3 : << "json", "filename", "path" >>[i] = origin

\* C16: detectLanguageForFile returns no detection when path, filename and
\* metadata give none; otherwise it returns one of them, no other one has a higher
\* specificity, and none of the same specificity comes from a source of higher
\* priority (path, then filename, then metadata). For path en-GB/home.json and
\* name home_fr.json it returns en-GB with origin path.
C16_BestDetection ==
  pc = "detected" =>
    /\ DetectionsOf(detectFile) = {} => detected = NoDetection
    /\ DetectionsOf(detectFile) # {} =>
         /\ detected \in DetectionsOf(detectFile)
         /\ \A d \in DetectionsOf(detectFile) :
              \/ Score(d.lang) < Score(detected.lang)
              \/ /\ Score(d.lang) = Score(detected.lang)
                 /\ OriginRank(d.origin) <= OriginRank(detected.origin)
    /\ (detectFile.path = EnGbHomePath /\ detectFile.name = HomeFrName) =>
         detected = Candidate(<< "e", "n", "-", "G", "B" >>, "path")

\* the document at en-GB/home.json named home_fr.json whose metadata declare a
\* region-qualified code as well: the path wins over the less specific filename
\* and over the equally specific metadata
C16_Witness ==
  /\ pc = "detected"
  /\ detectFile.path = EnGbHomePath /\ detectFile.name = HomeFrName
  /\ detected.origin = "path"
  /\ \E d \in DetectionsOf(detectFile) : d.origin = "filename" /\ Score(d.lang) = 1
  /\ \E d \in DetectionsOf(detectFile) : d.origin = "json" /\ Score(d.lang) = 2

\* C17: the language code detectLanguageForFile returns is two lowercase letters,
\* or two lowercase letters, a hyphen and two uppercase letters
C17_WellFormedCode ==
  (pc = "detected" /\ detected.lang # NoLanguage) => Score(detected.lang) \in { 1, 2 }

------------------------------------------------------------------------------
(* findLanguagePairs *)

\* langCode.startsWith(prefix)
StartsWith(langCode, prefix) == StartsWithAt(langCode, 1, prefix)

\* code.split('-')[0]
FirstPart(code) ==
  IF \E i \in DOMAIN code : code[i] = "-"
  THEN SubSeq(code, 1, (CHOOSE i \in DOMAIN code :
                          code[i] = "-" /\ \A j \in 1..(i - 1) : code[j] # "-") - 1)
  ELSE code

English == << "e", "n" >>

\* specifiedSourceLang?.split('-')[0] || 'en'; no text stands for an absent argument
baseSourceLang(specified) ==
  IF FirstPart(specified) # <<>> THEN FirstPart(specified) ELSE English

sourceLangPriority(specified) ==
  IF specified # <<>>
  THEN << specified, baseSourceLang(specified) \o << "-", "G", "B" >>,
          baseSourceLang(specified) \o << "-", "U", "S" >>, baseSourceLang(specified) >>
  ELSE << English \o << "-", "G", "B" >>, English \o << "-", "U", "S" >>, English >>

\* [...new Set(list)]
Unique(list) ==
  SelectSeq([k \in DOMAIN list |->
               IF \E j \in 1..(k - 1) : list[j] = list[k] THEN <<>> ELSE << list[k] >>],
            LAMBDA x : x # <<>>)

uniqueSourcePriority(specified) == Flatten(Unique(sourceLangPriority(specified)))

\* fileGroups.get(baseName).push(file), after fileGroups.set(baseName, []) for a new
\* base name; a document is referred to by its place in files
GroupPush(groups, baseName, i) ==
  IF \E g \in DOMAIN groups : groups[g].baseName = baseName
  THEN [g \in DOMAIN groups |->
          IF groups[g].baseName = baseName
          THEN [groups[g] EXCEPT !.group = Append(@, i)] ELSE groups[g]]
  ELSE Append(groups, [baseName |-> baseName, group |-> << i >>])

\* files.forEach(file => ...) from the k-th file on
RECURSIVE GroupFiles(_, _, _)
GroupFiles(files, k, groups) ==
  IF k > Len(files) THEN groups
  ELSE GroupFiles(files, k + 1, GroupPush(groups, getBaseName(PathOrName(files[k])), k))

\* detectLanguageForFile(file).lang
LangOf(files, i) == detectLanguageForFile(files[i]).lang

\* the documents of the group that can be the source
sourceCandidates(files, group, base) ==
  SelectSeq(group, LAMBDA i : LangOf(files, i) # NoLanguage /\ StartsWith(LangOf(files, i), base))

\* sourceCandidates.find((x) => x.det.lang === pref), 0 when there is none
FindCandidate(files, candidates, pref) ==
  IF \E k \in DOMAIN candidates : LangOf(files, candidates[k]) = pref
  THEN candidates[CHOOSE k \in DOMAIN candidates :
                    /\ LangOf(files, candidates[k]) = pref
                    /\ \A j \in 1..(k - 1) : LangOf(files, candidates[j]) # pref]
  ELSE 0

\* for (const pref of uniqueSourcePriority): the source document, 0 when none is found
SourceFileOf(files, candidates, priority) ==
  IF \E p \in DOMAIN priority : FindCandidate(files, candidates, priority[p]) # 0
  THEN FindCandidate(files, candidates,
         priority[CHOOSE p \in DOMAIN priority :
                    /\ FindCandidate(files, candidates, priority[p]) # 0
                    /\ \A q \in 1..(p - 1) : FindCandidate(files, candidates, priority[q]) = 0])
  ELSE 0

\* every document with a language is a target
IsTargetAnyLanguage(langCode, base) == langCode # NoLanguage

\* langCode && !langCode.startsWith(baseSourceLang)
IsTarget(langCode, base) == langCode # NoLanguage /\ ~StartsWith(langCode, base)

TargetFilesOf(files, group, sourceFile, base) ==
  SelectSeq(group, LAMBDA i : i # sourceFile /\ IsTarget(LangOf(files, i), base))

LanguagePair(sourceLanguage, targetLanguage, sourceFile, targetFile) ==
  [sourceLanguage |-> sourceLanguage, targetLanguage |-> targetLanguage,
   sourceFiles |-> << sourceFile >>, targetFiles |-> << targetFile >>]

\* the pairs pushed for a group with this source document and these targets
PairsOf(files, sourceFile, targets) ==
  IF sourceFile # 0 /\ targets # <<>>
  THEN [k \in DOMAIN targets |->
          LanguagePair(LangOf(files, sourceFile), LangOf(files, targets[k]),
                       sourceFile, targets[k])]
  ELSE <<>>

GroupPairs(files, group, specified) ==
  PairsOf(files,
          SourceFileOf(files, sourceCandidates(files, group, baseSourceLang(specified)),
                       uniqueSourcePriority(specified)),
          TargetFilesOf(files, group,
                        SourceFileOf(files,
                                     sourceCandidates(files, group, baseSourceLang(specified)),
                                     uniqueSourcePriority(specified)),
                        baseSourceLang(specified)))

\* detectLanguageForFile throws for a document of the group
GroupThrows(files, group) ==
  \E k \in DOMAIN group : DetectFromJsonThrows(files[group[k]].content)

MaxDocuments == 3

\* app.json and its content declaring language and locale
DeclaredDoc(language, locale) ==
  JsonFile(<< "a", "p", "p", ".", "j", "s", "o", "n" >>, <<>>,
           Obj(<< Member("language", Str(language)), Member("locale", Str(locale)) >>))

PairDocuments ==
  { JsonFile(<< "x", ".", "j", "s", "o", "n" >>,
             << "e", "n", "/", "x", ".", "j", "s", "o", "n" >>, Obj(<<>>)),
    JsonFile(<< "x", ".", "j", "s", "o", "n" >>,
             << "f", "r", "/", "x", ".", "j", "s", "o", "n" >>, Obj(<<>>)),
    JsonFile(<< "x", "_", "d", "e", ".", "j", "s", "o", "n" >>, <<>>, Obj(<<>>)),
    JsonFile(<< "x", "_", "e", "n", "-", "G", "B", ".", "j", "s", "o", "n" >>, <<>>, Obj(<<>>)),
    JsonFile(<< "a", "p", "p", ".", "f", "r", "-", "C", "A", ".", "j", "s", "o", "n" >>, <<>>,
             Obj(<<>>)),
    JsonFile(<< "a", "p", "p", "_", "f", "r", ".", "j", "s", "o", "n" >>, <<>>, Null),
    JsonFile(<< "a", "p", "p" >>, <<>>, Obj(<<>>)),
    DeclaredDoc(<< "e", "n", "g" >>, << "g", "b", "r" >>) }

SpecifiedSourceLangs ==
  { <<>>, English, << "e", "n", "-", "U", "S" >>, << "f", "r" >>, << "f", "r", "-", "C", "A" >>,
    << "e", "n", "g", "-", "G", "B", "R" >> }

\* the lists of up to n documents; a document may be listed twice
DocumentLists(n) == UNION { [1..k -> PairDocuments] : k \in 0..n }

InitPairs ==
  /\ pc = "pairs"
  /\ pairFiles \in DocumentLists(MaxDocuments)
  /\ specifiedSourceLang \in SpecifiedSourceLangs
  /\ fileGroups = <<>>
  /\ groupIndex = 1
  /\ pairs = <<>>
  /\ text = <<>>
  /\ DecodeIdle
  /\ SegmentIdle
  /\ InlineIdle
  /\ FlattenIdle
  /\ AlignIdle
  /\ IdIdle
  /\ BaseNameIdle
  /\ DetectIdle
  /\ SerializeIdle
  /\ UploadIdle

\* files.forEach(file => ...): the groups, in the order their base names first appear
PairsGroupFiles ==
  /\ pc = "pairs"
  /\ fileGroups' = GroupFiles(pairFiles, 1, <<>>)
  /\ pc' = "groups"
  /\ UNCHANGED <<pairFiles, specifiedSourceLang, groupIndex, pairs, baseArg, baseNames,
                 detectVars, notLang>>

\* the callback of fileGroups.forEach for one group
PairsGroup ==
  /\ pc = "groups"
  /\ groupIndex <= Len(fileGroups)
  /\ ~GroupThrows(pairFiles, fileGroups[groupIndex].group)
  /\ pairs' = pairs \o GroupPairs(pairFiles, fileGroups[groupIndex].group, specifiedSourceLang)
  /\ groupIndex' = groupIndex + 1
  /\ UNCHANGED <<pc, pairFiles, specifiedSourceLang, fileGroups, baseArg, baseNames,
                 detectVars, notLang>>

\* detectLanguageForFile throws in the callback: findLanguagePairs returns nothing
PairsThrow ==
  /\ pc = "groups"
  /\ groupIndex <= Len(fileGroups)
  /\ GroupThrows(pairFiles, fileGroups[groupIndex].group)
  /\ pc' = "threw"
  /\ UNCHANGED <<pairFiles, specifiedSourceLang, fileGroups, groupIndex, pairs, baseArg,
                 baseNames, detectVars, notLang>>

\* return pairs
PairsReturn ==
  /\ pc = "groups"
  /\ groupIndex > Len(fileGroups)
  /\ pc' = "paired"
  /\ UNCHANGED <<pairFiles, specifiedSourceLang, fileGroups, groupIndex, pairs, baseArg,
                 baseNames, detectVars, notLang>>

NextPairs == PairsGroupFiles \/ PairsGroup \/ PairsThrow \/ PairsReturn

SpecPairs == InitPairs /\ [][NextPairs]_vars

\* the base language of a code: what stands before its hyphen
BaseLanguage(code) ==
  IF \E i \in DOMAIN code : code[i] = "-"
  THEN SubSeq(code, 1, (CHOOSE i \in DOMAIN code :
                          code[i] = "-" /\ \A j \in DOMAIN code : code[j] = "-" => i <= j) - 1)
  ELSE code

\* the BaseIdentifier of the group a pair was emitted for
GroupOfPair(p) == getBaseName(PathOrName(pairFiles[p.targetFiles[1]]))

\* C19: in every pair findLanguagePairs has pushed the base language of
\* sourceLanguage is not the base language of targetLanguage, and two pairs of
\* one base-name group have the same single source document
C19_PairsWellFormed ==
  \A k \in DOMAIN pairs :
    /\ BaseLanguage(pairs[k].sourceLanguage) # BaseLanguage(pairs[k].targetLanguage)
    /\ Len(pairs[k].sourceFiles) = 1
    /\ GroupOfPair(pairs[k]) = getBaseName(PathOrName(pairFiles[pairs[k].sourceFiles[1]]))
    /\ \A j \in DOMAIN pairs :
         GroupOfPair(pairs[j]) = GroupOfPair(pairs[k]) =>
           pairs[j].sourceFiles = pairs[k].sourceFiles

\* findLanguagePairs returned two pairs of one group: one source document with
\* two targets
C19_Witness ==
  /\ pc = "paired"
  /\ Len(pairs) = 2
  /\ GroupOfPair(pairs[1]) = GroupOfPair(pairs[2])
  /\ pairs[1].targetFiles # pairs[2].targetFiles
  /\ pairs[1].targetLanguage # pairs[2].targetLanguage

------------------------------------------------------------------------------
(* Further claims about segmentIntoSentences *)

ListLetters == { "a", "b", "c" }

\* C22: in a text whose list items each start right after a line break, a new
\* segment starts at every list item: no segment holds the line before an item
\* together with the item, or two items
C22_ListItemsStartSegments ==
  (pc = "segmented" /\ text \in LineListTexts) =>
    \A k \in DOMAIN restoredSegments :
      Cardinality(ListLetters \cap Range(restoredSegments[k])) <= 1

\* a colon at i, whitespace, then a list marker: an enumerator N. or a bullet glyph
\* that is followed by whitespace
ColonBeforeListAt(s, i) ==
  /\ s[i] = ":"
  /\ RunLen(s, i + 1, WhiteSpace) > 0
  /\ \E j \in { i + 1 + RunLen(s, i + 1, WhiteSpace) } :
       /\ MarkerLenAt(s, j) > 0
       /\ s[j] \in BulletChars => (j + 1 <= Len(s) /\ s[j + 1] \in WhiteSpace)

\* the text has nothing else that cuts it: no sentence end, no sentinel, no list
\* item at its start
NothingButColons(s) ==
  /\ \A i \in DOMAIN s : s[i] \notin { ".", "!", "?", "u8230" }
  /\ ~Contains(s, BOUNDARY)
  /\ ListItemLenAt(s, 1) = 0

\* C29: a colon cuts the text only when whitespace and a list marker follow it: a
\* text that nothing else cuts and that has no such colon stays one segment, as
\* `Score: -5 points` and `Ratio: 3.5` do
C29_ColonSplitsOnlyBeforeList ==
  pc = "segmented" =>
    /\ (/\ normalizedText # <<>>
        /\ NothingButColons(normalizedText)
        /\ \A i \in DOMAIN normalizedText : ~ColonBeforeListAt(normalizedText, i))
         => Len(restoredSegments) = 1
    /\ text \in { ScoreText, RatioText } => restoredSegments = << text >>

------------------------------------------------------------------------------
(* Further claims about decodeHtmlEntities *)

\* the references of the text are all by name, and no name is one of HTML_ENTITY_MAP
OnlyUnknownNames(s) ==
  \A i \in DOMAIN s :
    /\ DecimalRefAt(s, i) = 0
    /\ HexRefAt(s, i) = 0
    /\ NamedRefAt(s, i) > 0 =>
         Join(SubSeq(s, i + 1, i + NamedRefAt(s, i))) \notin DOMAIN HTML_ENTITY_MAP

\* C27: a text whose references are all named references with a name that is no
\* entry of HTML_ENTITY_MAP is returned as it was written
C27_UnknownNamesUntouched ==
  (pc = "decoded" /\ call = 1 /\ OnlyUnknownNames(text)) => result = text

\* the text is one decimal reference, and nothing else
IsDecimalRef(s) == s # <<>> /\ DecimalRefAt(s, 1) = Len(s) - 3

\* the text is one hexadecimal reference, and nothing else
IsHexRef(s) == s # <<>> /\ HexRefAt(s, 1) = Len(s) - 4

\* the value a numeric reference is written with
ValueOfRef(s) ==
  IF IsDecimalRef(s) THEN ParseInt(SubSeq(s, 3, Len(s) - 1), 10)
  ELSE ParseInt(SubSeq(s, 4, Len(s) - 1), 16)

\* C28: decodeHtmlEntities returns a text for every text, and for a text that is
\* one numeric reference it returns the character at that code point, or the text
\* as written when the value is 0
C28_NumericReferences ==
  /\ pc # "decode_threw"
  /\ (pc = "decoded" /\ call = 1 /\ (IsDecimalRef(text) \/ IsHexRef(text))) =>
       result = IF ValueOfRef(text) = 0 THEN text ELSE << Chr(ValueOfRef(text)) >>

------------------------------------------------------------------------------
(* Further claims about detectLanguageFromFilename *)

\* C26: for a file named en-GB_home.json, fr.home.json or es-home.json,
\* detectLanguageFromFilename returns the code at the start of the name
C26_PrefixMarkedNames ==
  pc = "detected" =>
    /\ detectFile.name = EnGbHomeName =>
         detectLanguageFromFilename(detectFile.name) = << "e", "n", "-", "G", "B" >>
    /\ detectFile.name = FrHomeName =>
         detectLanguageFromFilename(detectFile.name) = << "f", "r" >>
    /\ detectFile.name = EsHomeName =>
         detectLanguageFromFilename(detectFile.name) = << "e", "s" >>

------------------------------------------------------------------------------
(* Further claims about findLanguagePairs *)

\* the priority list as stated: the preferred code, en when none is given, then
\* the GB and US variants of its base language, then the base language
StatedPriority(specified) ==
  LET preferred == IF specified # <<>> THEN specified ELSE English
  IN << preferred, BaseLanguage(preferred) \o << "-", "G", "B" >>,
        BaseLanguage(preferred) \o << "-", "U", "S" >>, BaseLanguage(preferred) >>

\* the documents of a group whose code is the given one
WithCode(group, code) == { i \in Range(group) : LangOf(pairFiles, i) = code }

\* the first code of the stated list that a document of the group has
StatedSourceCode(group, specified) ==
  LET list == StatedPriority(specified)
  IN list[CHOOSE p \in DOMAIN list :
            /\ WithCode(group, list[p]) # {}
            /\ \A q \in 1..(p - 1) : WithCode(group, list[q]) = {}]

\* the group holds a document in the base language of the preference and a
\* document in another language
HoldsSourceAndTarget(group, specified) ==
  /\ \E i \in Range(group) :
       BaseLanguage(LangOf(pairFiles, i)) = baseSourceLang(specified)
  /\ \E i \in Range(group) :
       /\ LangOf(pairFiles, i) # NoLanguage
       /\ BaseLanguage(LangOf(pairFiles, i)) # baseSourceLang(specified)

\* C25: when findLanguagePairs has returned, every pair of a group has as source
\* the code that comes first in the stated priority list among the codes of the
\* group, and a group with a document in the preferred base language and a
\* document in another language has a pair
C25_SourceByPriority ==
  pc = "paired" =>
    \A g \in DOMAIN fileGroups :
      /\ \A k \in DOMAIN pairs :
           GroupOfPair(pairs[k]) = fileGroups[g].baseName =>
             /\ \E p \in DOMAIN StatedPriority(specifiedSourceLang) :
                  WithCode(fileGroups[g].group, StatedPriority(specifiedSourceLang)[p]) # {}
             /\ pairs[k].sourceLanguage
                  = StatedSourceCode(fileGroups[g].group, specifiedSourceLang)
      /\ HoldsSourceAndTarget(fileGroups[g].group, specifiedSourceLang) =>
           \E k \in DOMAIN pairs : GroupOfPair(pairs[k]) = fileGroups[g].baseName

\* C25, the part about the order of the list
C25_SourceInStatedOrder ==
  pc = "paired" =>
    \A g \in DOMAIN fileGroups : \A k \in DOMAIN pairs :
      GroupOfPair(pairs[k]) = fileGroups[g].baseName =>
        /\ \E p \in DOMAIN StatedPriority(specifiedSourceLang) :
             WithCode(fileGroups[g].group, StatedPriority(specifiedSourceLang)[p]) # {}
        /\ pairs[k].sourceLanguage
             = StatedSourceCode(fileGroups[g].group, specifiedSourceLang)

\* C25, the part about the group that has a source and a target
C25_PairEmitted ==
  pc = "paired" =>
    \A g \in DOMAIN fileGroups :
      HoldsSourceAndTarget(fileGroups[g].group, specifiedSourceLang) =>
        \E k \in DOMAIN pairs : GroupOfPair(pairs[k]) = fileGroups[g].baseName

------------------------------------------------------------------------------
(* Further claims about convertHtmlTagsToTmxInline *)

\* the first pass has just recorded a closing tag
ClosingTagScanned ==
  /\ pc = "inline_scan"
  /\ Len(tags') = Len(tags) + 1
  /\ isClosing(tags'[Len(tags')].fullTag)
  /\ ~isSelfClosing(tags'[Len(tags')].fullTag)

\* the places of the stack that hold an open tag with the name
OpenWithName(tagName) == { k \in DOMAIN tagStack : tagStack[k].tagName = tagName }

\* the closing tag just recorded took the id of the stack entry at place k, and
\* that entry left the stack
PairedWithEntry(k) ==
  /\ tags'[Len(tags')].type = "paired-end"
  /\ tags'[Len(tags')].pairId = tagStack[k].id
  /\ tagStack' = SubSeq(tagStack, 1, k - 1) \o SubSeq(tagStack, k + 1, Len(tagStack))

\* the closing tag just recorded is a standalone tag with an id no tag had before
StandaloneWithFreshId ==
  /\ tags'[Len(tags')].type = "standalone"
  /\ \A j \in DOMAIN tags : tags[j].pairId < tags'[Len(tags')].pairId
  /\ tagStack' = tagStack

\* C23 as claimed: a closing tag is paired with the most recently opened
\* still-open tag of its name, and is a standalone tag with a fresh id when no
\* open tag has its name
C23_MostRecentlyOpened ==
  [][ClosingTagScanned =>
        IF OpenWithName(tags'[Len(tags')].tagName) = {} THEN StandaloneWithFreshId
        ELSE PairedWithEntry(CHOOSE k \in OpenWithName(tags'[Len(tags')].tagName) :
               \A j \in OpenWithName(tags'[Len(tags')].tagName) : j <= k)]_vars

\* C23 amended: a closing tag is paired with the earliest opened still-open tag
\* of its name, even when other tags were opened after that one, and is a
\* standalone tag with a fresh id when no open tag has its name
C23_EarliestOpened ==
  [][ClosingTagScanned =>
        IF OpenWithName(tags'[Len(tags')].tagName) = {} THEN StandaloneWithFreshId
        ELSE PairedWithEntry(CHOOSE k \in OpenWithName(tags'[Len(tags')].tagName) :
               \A j \in OpenWithName(tags'[Len(tags')].tagName) : k <= j)]_vars

\* a closing tag was paired with an open tag although a tag of the same name,
\* opened later, is still open
C23_Witness ==
  /\ pc = "inline_scan"
  /\ \E k \in DOMAIN tags :
       /\ tags[k].type = "paired-end"
       /\ \E s \in DOMAIN tagStack :
            /\ tagStack[s].tagName = tags[k].tagName
            /\ tagStack[s].id > tags[k].pairId

\* C24: for <b><b></b></b> the first closing tag has the id of the first opening
\* tag and the second closing tag the id of the second opening tag
C24_NestedSameName ==
  (text = NestedSameNameText /\ pc = "inline_unclosed") =>
    /\ Len(tags) = 4
    /\ tags[1].type = "paired-start" /\ tags[2].type = "paired-start"
    /\ tags[3].type = "paired-end" /\ tags[4].type = "paired-end"
    /\ tags[1].pairId # tags[2].pairId
    /\ tags[3].pairId = tags[1].pairId
    /\ tags[4].pairId = tags[2].pairId

\* the first pass over <b><b></b></b> has ended
C24_Witness ==
  /\ text = NestedSameNameText
  /\ pc = "inline_unclosed"
  /\ Len(tags) = 4
  /\ tagStack = <<>>

------------------------------------------------------------------------------
(* FileUpload: handleFiles, with onFilesChange the state setter of the converter *)

MaxSelections == 3

JsonExtension == << ".", "j", "s", "o", "n" >>

\* a File of a selection; parses tells whether file.text() resolves to a text that
\* JSON.parse accepts
PickedFile(name, type, parses) == [name |-> name, type |-> type, parses |-> parses]

HomeJson == PickedFile(<< "h", "o", "m", "e" >> \o JsonExtension, "application/json", TRUE)

BrokenJson == PickedFile(<< "b", "a", "d" >> \o JsonExtension, "application/json", FALSE)

UntypedJson == PickedFile(<< "m", "e", "n", "u" >> \o JsonExtension, "", TRUE)

NotesTxt == PickedFile(<< "n", "o", "t", "e", "s", ".", "t", "x", "t" >>, "text/plain", TRUE)

\* the FileLists of a selection or a drop
PickedLists ==
  { << HomeJson >>, << UntypedJson, BrokenJson >>, << NotesTxt, HomeJson >>, << NotesTxt >>,
    <<>> }

\* file.type === 'application/json' || file.name.endsWith('.json')
IsJsonFile(file) == file.type = "application/json" \/ EndsWith(file.name, JsonExtension)

\* the place from i on of the next file the loop reads, 0 when the loop ends
NextRead(fileList, i) ==
  IF \E j \in i..Len(fileList) : IsJsonFile(fileList[j])
  THEN CHOOSE j \in i..Len(fileList) :
         IsJsonFile(fileList[j]) /\ \A k \in i..(j - 1) : ~IsJsonFile(fileList[k])
  ELSE 0

\* { name: file.name, content, path: file.name }; the content is told apart by the
\* call and the place of the file in its list
ParsedFile(c, i, file) == JsonFile(file.name, file.name, << c, i >>)

\* a call of handleFiles: its argument, the files of its closure, let i, newFiles,
\* and whether it waits for file.text() or has ended
HandleFilesCall(fileList, closure, i, newFiles, state) ==
  [fileList |-> fileList, files |-> closure, i |-> i, newFiles |-> newFiles, state |-> state]

InitUpload ==
  /\ pc = "upload"
  /\ uploadFiles = <<>>
  /\ handleFilesCalls = <<>>
  /\ text = <<>>
  /\ DecodeIdle
  /\ SegmentIdle
  /\ InlineIdle
  /\ FlattenIdle
  /\ AlignIdle
  /\ IdIdle
  /\ LangIdle
  /\ SerializeIdle

\* handleDrop or handleFileInput calls handleFiles, which runs up to its first
\* await, or to its end when the list has no JSON file
HandleFiles ==
  /\ pc = "upload"
  /\ Len(handleFilesCalls) < MaxSelections
  /\ \E fileList \in PickedLists :
       IF NextRead(fileList, 1) = 0
       THEN /\ handleFilesCalls' =
                 Append(handleFilesCalls, HandleFilesCall(fileList, uploadFiles, 0, <<>>, "ended"))
            /\ uploadFiles' = uploadFiles \o <<>>
       ELSE /\ handleFilesCalls' =
                 Append(handleFilesCalls,
                        HandleFilesCall(fileList, uploadFiles, NextRead(fileList, 1), <<>>,
                                        "reading"))
            /\ uploadFiles' = uploadFiles
  /\ UNCHANGED <<pc, notUpload>>

\* handleFiles(null): if (!fileList) return
HandleNoFiles ==
  /\ pc = "upload"
  /\ Len(handleFilesCalls) < MaxSelections
  /\ handleFilesCalls' =
       Append(handleFilesCalls, HandleFilesCall(<<>>, uploadFiles, 0, <<>>, "returned"))
  /\ UNCHANGED <<pc, uploadFiles, notUpload>>

\* newFiles after the file at i has been read: pushed when it parses, else the catch
NewFilesAfter(c) ==
  IF handleFilesCalls[c].fileList[handleFilesCalls[c].i].parses
  THEN Append(handleFilesCalls[c].newFiles,
              ParsedFile(c, handleFilesCalls[c].i,
                         handleFilesCalls[c].fileList[handleFilesCalls[c].i]))
  ELSE handleFilesCalls[c].newFiles

\* file.text() of a call settles: the call goes on to its next await
FileRead ==
  /\ pc = "upload"
  /\ \E c \in DOMAIN handleFilesCalls :
       /\ handleFilesCalls[c].state = "reading"
       /\ NextRead(handleFilesCalls[c].fileList, handleFilesCalls[c].i + 1) # 0
       /\ handleFilesCalls' =
            [handleFilesCalls EXCEPT
               ![c].newFiles = NewFilesAfter(c),
               ![c].i = NextRead(handleFilesCalls[c].fileList, handleFilesCalls[c].i + 1)]
  /\ UNCHANGED <<pc, uploadFiles, notUpload>>

\* file.text() of the last JSON file of a call settles: the call runs to its end,
\* onFilesChange([...files, ...newFiles])
FilesChange ==
  /\ pc = "upload"
  /\ \E c \in DOMAIN handleFilesCalls :
       /\ handleFilesCalls[c].state = "reading"
       /\ NextRead(handleFilesCalls[c].fileList, handleFilesCalls[c].i + 1) = 0
       /\ handleFilesCalls' =
            [handleFilesCalls EXCEPT ![c].newFiles = NewFilesAfter(c), ![c].state = "ended"]
       /\ uploadFiles' = handleFilesCalls[c].files \o NewFilesAfter(c)
  /\ UNCHANGED <<pc, notUpload>>

NextUpload == HandleFiles \/ HandleNoFiles \/ FileRead \/ FilesChange

SpecUpload == InitUpload /\ [][NextUpload]_vars

------------------------------------------------------------------------------
(* Claims about FileUpload *)

\* the files of a selection that were read and parsed
ParsedOf(c) ==
  { ParsedFile(c, i, handleFilesCalls[c].fileList[i]) :
      i \in { j \in DOMAIN handleFilesCalls[c].fileList :
                /\ IsJsonFile(handleFilesCalls[c].fileList[j])
                /\ handleFilesCalls[c].fileList[j].parses } }

\* C30: once every call of handleFiles has ended, the files the converter holds
\* include every parsed file of every selection
C30_NoSelectionLost ==
  (\A c \in DOMAIN handleFilesCalls : handleFilesCalls[c].state # "reading") =>
    \A c \in DOMAIN handleFilesCalls : ParsedOf(c) \subseteq Range(uploadFiles)

\* C30 for selections that do not overlap: a call that started after every earlier
\* call had ended loses no file of those
C30_SequentialKept ==
  (/\ \A c \in DOMAIN handleFilesCalls : handleFilesCalls[c].state # "reading"
   /\ \A c \in DOMAIN handleFilesCalls : \A b \in 1..(c - 1) :
        ParsedOf(b) \subseteq Range(handleFilesCalls[c].files)) =>
    \A c \in DOMAIN handleFilesCalls : ParsedOf(c) \subseteq Range(uploadFiles)

------------------------------------------------------------------------------
(* generateTMX *)

\* the while loop of decodeHtmlEntities from one turn on
RECURSIVE DecodeLoop(_, _, _, _)
DecodeLoop(res, prev, iter, maxIter) ==
  IF KeepDecoding(res, prev, iter, maxIter)
  THEN DecodeLoop(DecodePassOf(res), res, iter + 1, maxIter)
  ELSE res

\* String.fromCodePoint throws in some turn of the loop
RECURSIVE DecodeLoopThrows(_, _, _, _)
DecodeLoopThrows(res, prev, iter, maxIter) ==
  /\ KeepDecoding(res, prev, iter, maxIter)
  /\ \/ PassThrows(res)
     \/ DecodeLoopThrows(DecodePassOf(res), res, iter + 1, maxIter)

\* decodeHtmlEntities(t), maxIterations taking its default
decodeHtmlEntities(t) ==
  IF t = <<>> THEN t ELSE DecodeLoop(t, <<>>, 0, DefaultMaxIterations)

\* what one match of tagRegex at index does to tags, tagStack and tagIdCounter
TagScanned(t, scan, index) ==
  LET fullTag == SubSeq(t, index, TagEndAt(t, index))
      tagName == TagNameAt(t, index)
      matchingIndex == FindIndex(scan.tagStack, tagName)
      tag(type, pairId) ==
        [type |-> type, fullTag |-> fullTag, tagName |-> tagName,
         index |-> index, pairId |-> pairId]
      fresh(type) ==
        [tags |-> Append(scan.tags, tag(type, scan.tagIdCounter)),
         tagStack |-> scan.tagStack, tagIdCounter |-> scan.tagIdCounter + 1]
  IN IF isSelfClosing(fullTag) THEN fresh("self-closing")
     ELSE IF isClosing(fullTag)
     THEN IF matchingIndex # 0
          THEN [tags |-> Append(scan.tags, tag("paired-end", scan.tagStack[matchingIndex].id)),
                tagStack |-> Splice(scan.tagStack, matchingIndex),
                tagIdCounter |-> scan.tagIdCounter]
          ELSE fresh("standalone")
     ELSE IF \E k \in DOMAIN standaloneTagNames : standaloneTagNames[k] = LowerCaseOf(tagName)
     THEN fresh("standalone")
     ELSE [tags |-> Append(scan.tags, tag("paired-start", scan.tagIdCounter)),
           tagStack |-> Append(scan.tagStack, [tagName |-> tagName, id |-> scan.tagIdCounter,
                                               startIndex |-> index]),
           tagIdCounter |-> scan.tagIdCounter + 1]

\* the first pass from lastIndex on
RECURSIVE FirstPass(_, _, _)
FirstPass(t, scan, lastIndex) ==
  IF NextTagFrom(t, lastIndex) = 0 THEN scan
  ELSE FirstPass(t, TagScanned(t, scan, NextTagFrom(t, lastIndex)),
                 TagEndAt(t, NextTagFrom(t, lastIndex)) + 1)

\* while (tagStack.length > 0)
RECURSIVE DemoteUnclosed(_, _)
DemoteUnclosed(tgs, stack) ==
  IF stack = <<>> THEN tgs
  ELSE DemoteUnclosed(Demote(tgs, stack[Len(stack)]), SubSeq(stack, 1, Len(stack) - 1))

\* the tags after the first pass and the loop over the unclosed tags
TagsOf(t, scan) == DemoteUnclosed(scan.tags, scan.tagStack)

convertHtmlTagsToTmxInline(t) ==
  ReplaceTags(t, SortByIndexDesc(
    TagsOf(t, FirstPass(t, [tags |-> <<>>, tagStack |-> <<>>, tagIdCounter |-> 1], 1))))

escapeXmlExceptTmxTags(t) ==
  RestoreTmxTags(escapeXmlContent(ProtectedText(t, 1, 0)), ProtectedTags(t, 1), 1)

\* the text escaped with the tags still in it, then the tags converted
processTextEscapedFirst(t) ==
  convertHtmlTagsToTmxInline(escapeXmlExceptTmxTags(decodeHtmlEntities(t)))

\* const processText
processText(t) == escapeXmlExceptTmxTags(convertHtmlTagsToTmxInline(decodeHtmlEntities(t)))

\* tu.segmentIndex ? ... : ...
HasSegmentIndex(tu) == tu.segmentIndex # <<>> /\ tu.segmentIndex[1] # 0

\* `${tu.totalSegments}`
TotalSegmentsText(tu) ==
  IF tu.totalSegments = <<>> THEN << "u", "n", "d", "e", "f", "i", "n", "e", "d" >>
  ELSE DigitsOf(tu.totalSegments[1])

\* const noteText
noteText(tu) ==
  IF HasSegmentIndex(tu)
  THEN tu.keyPath \o << " ", "(", "s", "e", "g", " " >> \o DigitsOf(tu.segmentIndex[1])
         \o << "/" >> \o TotalSegmentsText(tu) \o << ")" >>
         \o (IF tu.filePath # <<>> THEN << " ", "-", " " >> \o tu.filePath ELSE <<>>)
  ELSE tu.keyPath
         \o (IF tu.filePath # <<>> THEN << " ", "(" >> \o tu.filePath \o << ")" >> ELSE <<>>)

\* tmxHeader up to the value of srclang
HeaderToSrclang ==
  << "<", "?", "x", "m", "l", " ", "v", "e", "r", "s", "i", "o", "n", "=",
     "\"", "1", ".", "0", "\"", " ", "e", "n", "c", "o", "d", "i", "n", "g",
     "=", "\"", "U", "T", "F", "-", "8", "\"", "?", ">", "\n", "<", "t", "m",
     "x", " ", "v", "e", "r", "s", "i", "o", "n", "=", "\"", "1", ".", "4",
     "\"", ">", "\n", " ", " ", "<", "h", "e", "a", "d", "e", "r", "\n", " ",
     " ", " ", " ", "c", "r", "e", "a", "t", "i", "o", "n", "t", "o", "o",
     "l", "=", "\"", "J", "S", "O", "N", " ", "t", "o", " ", "T", "M", "X",
     " ", "C", "o", "n", "v", "e", "r", "t", "e", "r", "\"", "\n", " ", " ",
     " ", " ", "c", "r", "e", "a", "t", "i", "o", "n", "t", "o", "o", "l",
     "v", "e", "r", "s", "i", "o", "n", "=", "\"", "1", ".", "0", "\"", "\n",
     " ", " ", " ", " ", "s", "e", "g", "t", "y", "p", "e", "=", "\"", "s",
     "e", "n", "t", "e", "n", "c", "e", "\"", "\n", " ", " ", " ", " ", "o",
     "-", "t", "m", "f", "=", "\"", "j", "s", "o", "n", "\"", "\n", " ", " ",
     " ", " ", "a", "d", "m", "i", "n", "l", "a", "n", "g", "=", "\"", "e",
     "n", "\"", "\n", " ", " ", " ", " ", "s", "r", "c", "l", "a", "n", "g",
     "=", "\"" >>

\* tmxHeader after the value of srclang
HeaderFromSrclang ==
  << "\"", "\n", " ", " ", " ", " ", "d", "a", "t", "a", "t", "y", "p", "e",
     "=", "\"", "p", "l", "a", "i", "n", "t", "e", "x", "t", "\"", ">", "\n",
     " ", " ", "<", "/", "h", "e", "a", "d", "e", "r", ">", "\n", " ", " ",
     "<", "b", "o", "d", "y", ">" >>

\* const tmxFooter
tmxFooter ==
  << "\n", " ", " ", "<", "/", "b", "o", "d", "y", ">", "\n", "<", "/", "t",
     "m", "x", ">" >>

\* the block up to the tuid
TuToTuid ==
  << "\n", " ", " ", " ", " ", "<", "t", "u", " ", "t", "u", "i", "d", "=",
     "\"" >>

\* up to the note
TuToNote ==
  << "\"", ">", "\n", " ", " ", " ", " ", " ", " ", "<", "n", "o", "t", "e",
     ">" >>

\* up to the language of the source
TuToSourceLang ==
  << "<", "/", "n", "o", "t", "e", ">", "\n", " ", " ", " ", " ", " ", " ",
     "<", "t", "u", "v", " ", "x", "m", "l", ":", "l", "a", "n", "g", "=",
     "\"" >>

\* up to the source text
TuToSourceSeg ==
  << "\"", ">", "\n", " ", " ", " ", " ", " ", " ", " ", " ", "<", "s", "e",
     "g", ">" >>

\* up to the language of the target
TuToTargetLang ==
  << "<", "/", "s", "e", "g", ">", "\n", " ", " ", " ", " ", " ", " ", "<",
     "/", "t", "u", "v", ">", "\n", " ", " ", " ", " ", " ", " ", "<", "t",
     "u", "v", " ", "x", "m", "l", ":", "l", "a", "n", "g", "=", "\"" >>

\* up to the target text
TuToTargetSeg ==
  << "\"", ">", "\n", " ", " ", " ", " ", " ", " ", " ", " ", "<", "s", "e",
     "g", ">" >>

\* the end of the block
TuEnd ==
  << "<", "/", "s", "e", "g", ">", "\n", " ", " ", " ", " ", " ", " ", "<",
     "/", "t", "u", "v", ">", "\n", " ", " ", " ", " ", "<", "/", "t", "u",
     ">" >>

\* const tmxHeader
tmxHeader(srclang) == HeaderToSrclang \o srclang \o HeaderFromSrclang

\* the text the callback of map returns for a unit
TuElement(tu, srclang, tgtlang) ==
  TuToTuid \o generateTUID(tu) \o TuToNote \o processText(noteText(tu))
    \o TuToSourceLang \o srclang \o TuToSourceSeg \o processText(tu.sourceText)
    \o TuToTargetLang \o tgtlang \o TuToTargetSeg \o processText(tu.targetText.v) \o TuEnd

\* the callback throws: String.fromCodePoint in decodeHtmlEntities, or replace
\* called on a targetText that is no string
TuThrows(tu) ==
  \/ DecodeLoopThrows(noteText(tu), <<>>, 0, DefaultMaxIterations)
  \/ DecodeLoopThrows(tu.sourceText, <<>>, 0, DefaultMaxIterations)
  \/ tu.targetText.t # "string"
  \/ DecodeLoopThrows(tu.targetText.v, <<>>, 0, DefaultMaxIterations)

\* ---- the units generateTMX is called with: what parseJsonFiles returns ----

MaxUnits == 2

EnJson == << "e", "n", ".", "j", "s", "o", "n" >>

TmxUnits ==
  { TranslationUnit(<< "x" >>, Str(TextY), << "a" >>, EnJson, <<>>, <<>>),
    TranslationUnit(<< "x" >>, Str(<<>>), << "a", ".", "b" >>, <<>>, <<>>, <<>>),
    TranslationUnit(BoldHiText, Str(<< "1", " ", "<", " ", "2" >>), << "a" >>, EnJson,
                    << 1 >>, << 2 >>),
    TranslationUnit(<< "T", " ", "&", "a", "m", "p", ";", " ", "C" >>,
                    Str(<< "&", "a", "m", "p", ";", "l", "t", ";", "b", "r", ">" >>),
                    << "a" >>, EnJson, << 2 >>, << 2 >>),
    TranslationUnit(<< "x" >>, Str(<< "<", "b", "r", "/", ">", "\"", "Y", "\"" >>),
                    << "<", "i", ">", "&", "l", "t", ";" >>, <<>>, << 1 >>, << 2 >>),
    TranslationUnit(<< "x" >>, Str(<< "&", "#", "1", "1", "1", "4", "1", "1", "2", ";" >>),
                    << "a" >>, EnJson, <<>>, <<>>),
    TranslationUnit(<< "X" >>, [t |-> "function", v |-> << "constructor" >>],
                    << "c", "o", "n", "s", "t", "r", "u", "c", "t", "o", "r" >>, EnJson,
                    <<>>, <<>>) }

TmxLanguages == { << "e", "n" >>, << "f", "r", "-", "C", "A" >> }

\* the lists of up to n units
UnitLists(n) == UNION { [1..k -> TmxUnits] : k \in 0..n }

InitSerialize ==
  /\ pc = "serialize"
  /\ tmxUnits \in UnitLists(MaxUnits)
  /\ tmxSourceLanguage \in TmxLanguages
  /\ tmxTargetLanguage \in TmxLanguages
  /\ translationUnitElements = <<>>
  /\ tmxContent = <<>>
  /\ text = <<>>
  /\ DecodeIdle
  /\ SegmentIdle
  /\ InlineIdle
  /\ FlattenIdle
  /\ AlignIdle
  /\ IdIdle
  /\ LangIdle
  /\ UploadIdle

\* the callback of translationUnits.map for the next unit
SerializeUnit ==
  /\ pc = "serialize"
  /\ Len(translationUnitElements) < Len(tmxUnits)
  /\ ~TuThrows(tmxUnits[Len(translationUnitElements) + 1])
  /\ translationUnitElements' =
       Append(translationUnitElements,
              TuElement(tmxUnits[Len(translationUnitElements) + 1], tmxSourceLanguage,
                        tmxTargetLanguage))
  /\ UNCHANGED <<pc, tmxUnits, tmxSourceLanguage, tmxTargetLanguage, tmxContent, notSerialize>>

\* the callback throws: generateTMX returns nothing
SerializeThrow ==
  /\ pc = "serialize"
  /\ Len(translationUnitElements) < Len(tmxUnits)
  /\ TuThrows(tmxUnits[Len(translationUnitElements) + 1])
  /\ pc' = "threw"
  /\ UNCHANGED <<serializeVars, notSerialize>>

\* .join(''); return tmxHeader + translationUnitElements + tmxFooter
SerializeReturn ==
  /\ pc = "serialize"
  /\ Len(translationUnitElements) = Len(tmxUnits)
  /\ tmxContent' = tmxHeader(tmxSourceLanguage) \o Flatten(translationUnitElements) \o tmxFooter
  /\ pc' = "serialized"
  /\ UNCHANGED <<tmxUnits, tmxSourceLanguage, tmxTargetLanguage, translationUnitElements,
                 notSerialize>>

NextSerialize == SerializeUnit \/ SerializeThrow \/ SerializeReturn

SpecSerialize == InitSerialize /\ [][NextSerialize]_vars

------------------------------------------------------------------------------
(* Claims about generateTMX *)

\* the places of tmxContent at which s stands
PlacesOf(s) ==
  { i \in 1..(Len(tmxContent) - Len(s) + 1) : SubSeq(tmxContent, i, i + Len(s) - 1) = s }

\* the k-th place, in the order of the text, of a set of places
NthPlace(places, k) == CHOOSE i \in places : Cardinality({ j \in places : j <= i }) = k

\* what stands in the k-th block between the opening and the closing text
InBlock(k, opening, closing) ==
  SubSeq(tmxContent, NthPlace(PlacesOf(opening), k) + Len(opening),
         NthPlace(PlacesOf(closing), k) - 1)

TuOpening == << "<", "t", "u", " ", "t", "u", "i", "d", "=", "\"" >>

NoteOpening == << "<", "n", "o", "t", "e", ">" >>

NoteClosing == << "<", "/", "n", "o", "t", "e", ">" >>

SegOpening == << "<", "s", "e", "g", ">" >>

SegClosing == << "<", "/", "s", "e", "g", ">" >>

\* decode, then the tags converted, then the rest escaped
Processed(t) == escapeXmlExceptTmxTags(convertHtmlTagsToTmxInline(decodeHtmlEntities(t)))

\* the annotation of a unit before it is processed, as stated: the key path, the
\* segment index and total when the unit has a segmentIndex, the file
StatedNote(tu) ==
  IF tu.segmentIndex # <<>>
  THEN tu.keyPath \o << " ", "(", "s", "e", "g", " " >> \o DigitsOf(tu.segmentIndex[1])
         \o << "/" >> \o DigitsOf(tu.totalSegments[1]) \o << ")" >>
         \o (IF tu.filePath # <<>> THEN << " ", "-", " " >> \o tu.filePath ELSE <<>>)
  ELSE tu.keyPath
         \o (IF tu.filePath # <<>> THEN << " ", "(" >> \o tu.filePath \o << ")" >> ELSE <<>>)

\* C21: the text generateTMX returns is the header, one block for each unit in
\* the order of the units, and the footer; the note of the k-th block is the
\* processed annotation of the k-th unit, with the segment index and total
\* exactly when the unit has a segmentIndex, and its two seg elements hold the
\* processed source text and target text of that unit
C21_OneBlockPerUnit ==
  pc = "serialized" =>
    /\ SubSeq(tmxContent, 1, Len(tmxHeader(tmxSourceLanguage))) = tmxHeader(tmxSourceLanguage)
    /\ EndsWith(tmxContent, tmxFooter)
    /\ Cardinality(PlacesOf(TuOpening)) = Len(tmxUnits)
    /\ Cardinality(PlacesOf(NoteOpening)) = Len(tmxUnits)
    /\ Cardinality(PlacesOf(NoteClosing)) = Len(tmxUnits)
    /\ Cardinality(PlacesOf(SegOpening)) = 2 * Len(tmxUnits)
    /\ Cardinality(PlacesOf(SegClosing)) = 2 * Len(tmxUnits)
    /\ \A k \in DOMAIN tmxUnits :
         /\ InBlock(k, NoteOpening, NoteClosing) = Processed(StatedNote(tmxUnits[k]))
         /\ InBlock(2 * k - 1, SegOpening, SegClosing) = Processed(tmxUnits[k].sourceText)
         /\ InBlock(2 * k, SegOpening, SegClosing) = Processed(tmxUnits[k].targetText.v)
         /\ NthPlace(PlacesOf(TuOpening), k) < NthPlace(PlacesOf(NoteOpening), k)
         /\ NthPlace(PlacesOf(NoteClosing), k) < NthPlace(PlacesOf(SegOpening), 2 * k - 1)
         /\ k < Len(tmxUnits) =>
              NthPlace(PlacesOf(SegClosing), 2 * k) < NthPlace(PlacesOf(TuOpening), k + 1)

\* generateTMX returned the blocks of two units, one with a segmentIndex and a
\* text with tags, one without a segmentIndex
C21_Witness ==
  /\ pc = "serialized"
  /\ Len(tmxUnits) = 2
  /\ tmxUnits[1].segmentIndex # <<>> /\ tmxUnits[1].sourceText = BoldHiText
  /\ tmxUnits[2].segmentIndex = <<>>
  /\ Len(tmxContent) > Len(tmxHeader(tmxSourceLanguage)) + Len(tmxFooter)

====
